---- MODULE Spec2Model ----
(***************************************************************************)
(* A model of @shockpkg/archive-files: the Entry life cycle, Archive.read  *)
(* with its deferred-attributes map, and the discovery loops of the        *)
(* format adapters (test archive, directory, TAR, ZIP, disk image).        *)
(*                                                                         *)
(* Paths are held as sequences of segments.  The file system that the      *)
(* directory and disk-image adapters walk is an input: each readdir and    *)
(* lstat answer is drawn when the walk asks for it.  The file system the   *)
(* entries are extracted to is state (fs).                                 *)
(***************************************************************************)
EXTENDS Integers, Sequences, FiniteSets, TLC

\* ------------------------------------------------------------------ bounds
\* Names a directory listing may hold (the first MaxNames of Alphabet).
MaxNames == 2
\* Depth of the walked trees: a directory at this depth lists no child.
MaxDepth == 2
\* Length of the caller-supplied subpaths list of the directory adapter.
MaxSubpaths == 2
\* Records of a TAR stream, entries of a ZIP central directory.
MaxRecords == 3
\* Devices a disk image attaches.
MaxVolumes == 2
\* The callback-invocation counter saturates here.
CallsCap == 2
\* Consumption calls made on one entry.
MaxOps == 2

\* The longest string given to pathNormalize.
MaxPathLen == 3

\* ----------------------------------------------------------------- helpers
Alphabet == <<"a", "b", "c", "d">>

SortedNames == SubSeq(Alphabet, 1, MaxNames)

Names == {SortedNames[i] : i \in 1..Len(SortedNames)}

Reverse(s) == [i \in 1..Len(s) |-> s[Len(s) + 1 - i]]

IsPrefix(p, q) == Len(p) <= Len(q) /\ SubSeq(q, 1, Len(p)) = p

\* q lies strictly below the directory p.
StrictDescendant(q, p) == Len(p) < Len(q) /\ IsPrefix(p, q)

Min(a, b) == IF a < b THEN a ELSE b

\* ------------------------------------------------------------------- types
DIRECTORY == "directory"
FILE == "file"
SYMLINK == "symlink"
RESOURCE_FORK == "resource-fork"

PathType == {DIRECTORY, FILE, SYMLINK, RESOURCE_FORK}

\* Absent mode, absent time (null in the source).
NoMode == -1
NoTime == -1
NoSize == -1

\* What lstat can report of a walked path.
StatKinds == {"file", "dir", "symlink", "other"}

statToPathType(stat) ==
    IF stat = "symlink" THEN SYMLINK
    ELSE IF stat = "dir" THEN DIRECTORY
    ELSE IF stat = "file" THEN FILE
    ELSE "null"

\* An entry as its constructor leaves it.  size: null unless the adapter
\* gives one; readData: what the readData thunk resolves to, a stream
\* unless the adapter's thunk says otherwise.
NewEntry(type, pathRaw, mode, atime, mtime, thunks) ==
    [type |-> type, path |-> pathRaw, mode |-> mode, atime |-> atime,
     mtime |-> mtime, thunks |-> thunks, thunkCalls |-> 0, lazy |-> FALSE,
     triggering |-> FALSE, triggered |-> FALSE, extracted |-> FALSE,
     size |-> NoSize, readData |-> "stream"]

NoEntry == NewEntry("none", <<>>, NoMode, NoTime, NoTime, {})

\* ------------------------------------------------- extraction options, fs
\* IExtractOptions with its defaults filled in (defaultValue(..., false)).
Options(replace, ignorePermissions, ignoreTimes, resourceForkAsFile, symlinkAsFile) ==
    [replace |-> replace, ignorePermissions |-> ignorePermissions,
     ignoreTimes |-> ignoreTimes, resourceForkAsFile |-> resourceForkAsFile,
     symlinkAsFile |-> symlinkAsFile]

DefaultOptions == Options(FALSE, FALSE, FALSE, FALSE, FALSE)

\* Every option object.
AllOptions ==
    [replace : BOOLEAN, ignorePermissions : BOOLEAN, ignoreTimes : BOOLEAN,
     resourceForkAsFile : BOOLEAN, symlinkAsFile : BOOLEAN]

\* The option objects the modelled callbacks pass to extract.
OptionChoices ==
    {DefaultOptions,
     Options(TRUE, FALSE, FALSE, FALSE, FALSE),
     Options(TRUE, TRUE, TRUE, TRUE, TRUE)}

\* Destinations a callback extracts to, as written by the caller.
DestPaths == {<<"x">>, <<".", "x">>, <<"x", "y">>}

\* path.resolve relative to the working directory: '.' segments vanish.
pathResolve(path) == SelectSeq(path, LAMBDA s : s # ".")

FsPaths == {pathResolve(p) : p \in DestPaths}

\* What lies at a destination: nothing, a file (with or without a written
\* resource fork), a directory or a symbolic link.
FsKinds == {"none", "file", "filer", "dir", "symlink"}

pathDirname(p) == SubSeq(p, 1, Len(p) - 1)

\* The strict ancestors of p below the working directory.
Ancestors(p) == {q \in FsPaths : StrictDescendant(p, q)}

\* A file system is well formed when whatever exists lies in directories.
FsWellFormed(f) ==
    \A p \in FsPaths : f[p] # "none" => \A q \in Ancestors(p) : f[q] = "dir"

EmptyFs == [p \in FsPaths |-> "none"]

\* fsLstatExists: ENOENT and ENOTDIR both read as absent.
fsLstatExists(f, p) ==
    IF \A q \in Ancestors(p) : f[q] = "dir" THEN f[p] ELSE "none"

\* fse.remove: the object and everything below it.
fseRemove(f, p) == [q \in FsPaths |-> IF IsPrefix(p, q) THEN "none" ELSE f[q]]

\* mkdir -p can succeed: nothing but directories on the way.
CanEnsureDir(f, p) ==
    /\ \A q \in Ancestors(p) : f[q] \in {"none", "dir"}
    /\ p \in FsPaths => f[p] \in {"none", "dir"}

fseEnsureDir(f, p) ==
    [q \in FsPaths |-> IF IsPrefix(q, p) THEN "dir" ELSE f[q]]

\* Writing a file at p (outputFile, writeFile, symlink) after its parents
\* were made: kind is what is left at p.
FsPut(f, p, kind) == [fseEnsureDir(f, pathDirname(p)) EXCEPT ![p] = kind]

\* ------------------------------------------------------------ setAttributes
\* The mode as it is.
modePermissionBitsAll(mode) == mode

modePermissionBits(mode) == mode % 512

\* setAttributes with the link-following calls for every type.
setAttributesFollow(entry, options, lsupported) ==
    LET atimeSet == IF entry.atime # NoTime THEN entry.atime ELSE entry.mtime
        mtimeSet == IF entry.mtime # NoTime THEN entry.mtime ELSE entry.atime
        chmods ==
            IF ~options.ignorePermissions /\ entry.mode # NoMode
            THEN <<[call |-> "chmod",
                    mode |-> modePermissionBits(entry.mode),
                    atime |-> NoTime, mtime |-> NoTime]>>
            ELSE <<>>
        utimes ==
            IF ~options.ignoreTimes /\ atimeSet # NoTime /\ mtimeSet # NoTime
            THEN <<[call |-> "utimes", mode |-> NoMode,
                    atime |-> atimeSet, mtime |-> mtimeSet]>>
            ELSE <<>>
    IN  chmods \o utimes

\* The file-system calls Entry.setAttributes makes, in order.  lsupported:
\* the platform has O_SYMLINK, so fsLchmod and fsLutimes do something.
setAttributes(entry, options, lsupported) ==
    LET link == entry.type = SYMLINK
        atimeSet == IF entry.atime # NoTime THEN entry.atime ELSE entry.mtime
        mtimeSet == IF entry.mtime # NoTime THEN entry.mtime ELSE entry.atime
        chmods ==
            IF ~options.ignorePermissions /\ entry.mode # NoMode
            THEN IF link
                 THEN IF lsupported
                      THEN <<[call |-> "lchmod",
                              mode |-> modePermissionBits(entry.mode),
                              atime |-> NoTime, mtime |-> NoTime]>>
                      ELSE <<>>
                 ELSE <<[call |-> "chmod",
                         mode |-> modePermissionBits(entry.mode),
                         atime |-> NoTime, mtime |-> NoTime]>>
            ELSE <<>>
        utimes ==
            IF ~options.ignoreTimes /\ atimeSet # NoTime /\ mtimeSet # NoTime
            THEN IF link
                 THEN IF lsupported
                      THEN <<[call |-> "lutimes", mode |-> NoMode,
                              atime |-> atimeSet, mtime |-> mtimeSet]>>
                      ELSE <<>>
                 ELSE <<[call |-> "utimes", mode |-> NoMode,
                         atime |-> atimeSet, mtime |-> mtimeSet]>>
            ELSE <<>>
    IN  chmods \o utimes

\* ------------------------------------------------ deferred-attributes map
\* The map is a JavaScript Map: records in insertion order, one per key.
\* live = FALSE is the null the field holds outside a read.
NoAfters == [live |-> FALSE, recs |-> <<>>]

EmptyAfters == [live |-> TRUE, recs |-> <<>>]

AftersKeys(aft) == {aft.recs[i].resolved : i \in 1..Len(aft.recs)}

\* Map.delete(pathResolve(path)).
afterReadSetAttributesRemove(aft, path) ==
    [aft EXCEPT !.recs =
        SelectSeq(aft.recs, LAMBDA r : r.resolved # pathResolve(path))]

\* Map.set(pathResolve(path), {path, entry, options}): a present key keeps
\* its place, a new one goes last.  Of the entry the record keeps what
\* setAttributes reads.
afterReadSetAttributes(aft, path, entry, options) ==
    LET rec == [resolved |-> pathResolve(path), path |-> path,
                entry |-> [path |-> entry.path,
                           type |-> entry.type, mode |-> entry.mode,
                           atime |-> entry.atime, mtime |-> entry.mtime],
                options |-> options]
    IN  IF rec.resolved \in AftersKeys(aft)
        THEN [aft EXCEPT !.recs =
                [i \in 1..Len(aft.recs) |->
                    IF aft.recs[i].resolved = rec.resolved
                    THEN rec ELSE aft.recs[i]]]
        ELSE [aft EXCEPT !.recs = Append(aft.recs, rec)]

\* The public afterReadSetAttributes without its test of the map.
afterReadSetAttributesCallUnguarded(aft, path, entry, options) ==
    [afters |-> afterReadSetAttributes(aft, path, entry, options),
     error |-> "none"]

\* Archive.afterReadSetAttributes as a caller meets it: throws unless the
\* map is there.
afterReadSetAttributesCall(aft, path, entry, options) ==
    IF ~aft.live
    THEN [afters |-> aft, error |-> "OnlyAddedWhileReading"]
    ELSE [afters |-> afterReadSetAttributes(aft, path, entry, options),
          error |-> "none"]

\* Archive.afterReadSetAttributesRemove as a caller meets it.
afterReadSetAttributesRemoveCall(aft, path) ==
    IF ~aft.live
    THEN [afters |-> aft, error |-> "OnlyRemovedWhileReading"]
    ELSE [afters |-> afterReadSetAttributesRemove(aft, path),
          error |-> "none"]

\* Length of the resolved path string: every segment with its separator.
SegLen(s) == 1

RECURSIVE StringLength(_)
StringLength(path) ==
    IF path = <<>> THEN 0
    ELSE 1 + SegLen(Head(path)) + StringLength(Tail(path))

MaxLength(recs) ==
    IF recs = <<>> THEN 0
    ELSE LET lens == {StringLength(recs[i].resolved) : i \in 1..Len(recs)}
         IN  CHOOSE n \in lens : \A m \in lens : m <= n

\* resolves.sort((a, b) => b.length - a.length): longest first, records of
\* equal length in insertion order (the sort is stable).
RECURSIVE SortFrom(_, _)
SortFrom(recs, len) ==
    IF len < 0 THEN <<>>
    ELSE SelectSeq(recs, LAMBDA r : StringLength(r.resolved) = len)
         \o SortFrom(recs, len - 1)

\* A flush in the order of registration.
SortByInsertion(recs) == recs

SortByLength(recs) == SortFrom(recs, MaxLength(recs))

\* --------------------------------------------------------------- extraction
ExtractOutcome(error, f, aft, thunkCalls, calls) ==
    [error |-> error, fs |-> f, afters |-> aft, thunkCalls |-> thunkCalls,
     calls |-> calls]

\* A file extraction that writes over whatever is there.
_extractStreamToFileOver(entry, path, options, f, aft, lsupported) ==
    LET p == pathResolve(path)
    IN  IF ~CanEnsureDir(f, pathDirname(p))
        THEN ExtractOutcome("Io", f, aft, 0, <<>>)
        ELSE ExtractOutcome("none", FsPut(fseRemove(f, p), p, "file"), aft, 1,
                            setAttributes(entry, options, lsupported))

\* Entry._extractStreamToFile with the reader already known to be present.
_extractStreamToFile(entry, path, options, f, aft, lsupported) ==
    LET p == pathResolve(path)
        stat == fsLstatExists(f, p)
        f1 == IF stat # "none" THEN fseRemove(f, p) ELSE f
    IN  IF stat # "none" /\ ~options.replace
        THEN ExtractOutcome("PathExists", f, aft, 0, <<>>)
        ELSE IF ~CanEnsureDir(f1, pathDirname(p))
        THEN ExtractOutcome("Io", f1, aft, 0, <<>>)
        ELSE ExtractOutcome("none", FsPut(f1, p, "file"), aft, 1,
                            setAttributes(entry, options, lsupported))

_extractFile(entry, path, options, f, aft, lsupported) ==
    IF "data" \notin entry.thunks
    THEN ExtractOutcome("Internal", f, aft, 0, <<>>)
    ELSE _extractStreamToFile(entry, path, options, f, aft, lsupported)

\* A resource fork extraction content with anything at the destination.
_extractResourceForkAnyTarget(entry, path, options, f, aft, lsupported) ==
    LET p == pathResolve(path)
        stat == fsLstatExists(f, p)
    IN  IF "rsrc" \notin entry.thunks
        THEN ExtractOutcome("Internal", f, aft, 0, <<>>)
        ELSE IF options.resourceForkAsFile
        THEN _extractStreamToFile(entry, path, options, f, aft, lsupported)
        ELSE IF stat = "none"
        THEN ExtractOutcome("NoResourceFork", f, aft, 0, <<>>)
        ELSE ExtractOutcome("none", [f EXCEPT ![p] = "filer"], aft, 1,
                            setAttributes(entry, options, lsupported))

\* Entry._extractResourceFork: the fork is written beside the regular file
\* at the destination, or as a file of its own.
_extractResourceFork(entry, path, options, f, aft, lsupported) ==
    LET p == pathResolve(path)
        stat == fsLstatExists(f, p)
    IN  IF "rsrc" \notin entry.thunks
        THEN ExtractOutcome("Internal", f, aft, 0, <<>>)
        ELSE IF options.resourceForkAsFile
        THEN _extractStreamToFile(entry, path, options, f, aft, lsupported)
        ELSE IF stat \notin {"file", "filer"}
        THEN ExtractOutcome("NoResourceFork", f, aft, 0, <<>>)
        ELSE ExtractOutcome("none", [f EXCEPT ![p] = "filer"], aft, 1,
                            setAttributes(entry, options, lsupported))

\* A directory extraction that replaces a directory as it does a file.
_extractDirectoryReplaceAll(entry, path, options, f, aft) ==
    LET p == pathResolve(path)
        stat == fsLstatExists(f, p)
        f1 == IF stat # "none" THEN fseRemove(f, p) ELSE f
    IN  IF stat \notin {"none", "dir"} /\ ~options.replace
        THEN ExtractOutcome("PathExists", f, aft, 0, <<>>)
        ELSE IF stat = "dir" /\ ~options.replace
        THEN ExtractOutcome("none", f,
                            afterReadSetAttributes(aft, path, entry, options),
                            0, <<>>)
        ELSE IF ~CanEnsureDir(f1, p)
        THEN ExtractOutcome("Io", f1, aft, 0, <<>>)
        ELSE ExtractOutcome("none", fseEnsureDir(f1, p),
                            afterReadSetAttributes(aft, path, entry, options),
                            0, <<>>)

\* A directory extraction that sets the attributes at once.
_extractDirectoryAtOnce(entry, path, options, f, aft) ==
    LET p == pathResolve(path)
        stat == fsLstatExists(f, p)
        f1 == IF stat \notin {"none", "dir"} THEN fseRemove(f, p) ELSE f
    IN  IF stat \notin {"none", "dir"} /\ ~options.replace
        THEN ExtractOutcome("PathExists", f, aft, 0, <<>>)
        ELSE IF stat # "dir" /\ ~CanEnsureDir(f1, p)
        THEN ExtractOutcome("Io", f1, aft, 0, <<>>)
        ELSE ExtractOutcome("none",
                            IF stat = "dir" THEN f ELSE fseEnsureDir(f1, p),
                            aft, 0, setAttributes(entry, options, TRUE))

\* Entry._extractDirectory: a directory in place is kept; the attributes
\* are left to the end of the read.
_extractDirectory(entry, path, options, f, aft) ==
    LET p == pathResolve(path)
        stat == fsLstatExists(f, p)
        f1 == IF stat \notin {"none", "dir"} THEN fseRemove(f, p) ELSE f
    IN  IF stat \notin {"none", "dir"} /\ ~options.replace
        THEN ExtractOutcome("PathExists", f, aft, 0, <<>>)
        ELSE IF stat # "dir" /\ ~CanEnsureDir(f1, p)
        THEN ExtractOutcome("Io", f1, aft, 0, <<>>)
        ELSE ExtractOutcome("none",
                            IF stat = "dir" THEN f ELSE fseEnsureDir(f1, p),
                            afterReadSetAttributes(aft, path, entry, options),
                            0, <<>>)

_extractSymlink(entry, path, options, f, aft, lsupported) ==
    LET p == pathResolve(path)
        stat == fsLstatExists(f, p)
        f1 == IF stat # "none" THEN fseRemove(f, p) ELSE f
    IN  IF "symlink" \notin entry.thunks
        THEN ExtractOutcome("Internal", f, aft, 0, <<>>)
        ELSE IF stat # "none" /\ ~options.replace
        THEN ExtractOutcome("PathExists", f, aft, 0, <<>>)
        ELSE IF ~CanEnsureDir(f1, pathDirname(p))
        THEN ExtractOutcome("Io", f1, aft, 0, <<>>)
        ELSE ExtractOutcome("none",
                            FsPut(f1, p, IF options.symlinkAsFile
                                         THEN "file" ELSE "symlink"),
                            aft, 1,
                            setAttributes(entry, options, lsupported))

\* An extraction that leaves the pending record where it is.
_extractKeepRecord(entry, path, options, f, aft, l) ==
    IF ~aft.live
    THEN ExtractOutcome("NotReading", f, aft, 0, <<>>)
    ELSE IF entry.type = FILE
    THEN _extractFile(entry, path, options, f, aft, l)
    ELSE IF entry.type = RESOURCE_FORK
    THEN _extractResourceFork(entry, path, options, f, aft, l)
    ELSE IF entry.type = DIRECTORY
    THEN _extractDirectory(entry, path, options, f, aft)
    ELSE IF entry.type = SYMLINK
    THEN _extractSymlink(entry, path, options, f, aft, l)
    ELSE ExtractOutcome("UnsupportedPathType", f, aft, 0, <<>>)

\* An _extract that leaves the record pending at the destination alone.
_extractKeepingRecord(entry, path, options, f, aft, lsupported) ==
    IF ~aft.live
    THEN ExtractOutcome("NotReading", f, aft, 0, <<>>)
    ELSE IF entry.type = FILE
    THEN _extractFile(entry, path, options, f, aft, lsupported)
    ELSE IF entry.type = RESOURCE_FORK
    THEN _extractResourceFork(entry, path, options, f, aft, lsupported)
    ELSE IF entry.type = DIRECTORY
    THEN _extractDirectory(entry, path, options, f, aft)
    ELSE IF entry.type = SYMLINK
    THEN _extractSymlink(entry, path, options, f, aft, lsupported)
    ELSE ExtractOutcome("UnsupportedPathType", f, aft, 0, <<>>)

\* Entry._extract: drop the record pending at the destination, then extract
\* by type.  Outside a read the archive refuses the removal.
_extract(entry, path, options, f, aft, lsupported) ==
    LET aft1 == afterReadSetAttributesRemove(aft, path)
    IN  IF ~aft.live
        THEN ExtractOutcome("NotReading", f, aft, 0, <<>>)
        ELSE IF entry.type = FILE
        THEN _extractFile(entry, path, options, f, aft1, lsupported)
        ELSE IF entry.type = RESOURCE_FORK
        THEN _extractResourceFork(entry, path, options, f, aft1, lsupported)
        ELSE IF entry.type = DIRECTORY
        THEN _extractDirectory(entry, path, options, f, aft1)
        ELSE IF entry.type = SYMLINK
        THEN _extractSymlink(entry, path, options, f, aft1, lsupported)
        ELSE ExtractOutcome("UnsupportedPathType", f, aft1, 0, <<>>)

\* Entry._stream: the reader thunks it invokes at once (a symbolic link's
\* thunk runs when the returned stream is first read) and its error.
_stream(entry) ==
    IF entry.type = FILE
    THEN IF "data" \in entry.thunks
         THEN [error |-> "none", thunkCalls |-> 1,
               stream |-> entry.readData = "stream"]
         ELSE [error |-> "Internal", thunkCalls |-> 0, stream |-> FALSE]
    ELSE IF entry.type = RESOURCE_FORK
    THEN IF "rsrc" \in entry.thunks
         THEN [error |-> "none", thunkCalls |-> 1, stream |-> TRUE]
         ELSE [error |-> "Internal", thunkCalls |-> 0, stream |-> FALSE]
    ELSE IF entry.type = DIRECTORY
    THEN [error |-> "none", thunkCalls |-> 0, stream |-> FALSE]
    ELSE IF entry.type = SYMLINK
    THEN IF "symlink" \in entry.thunks
         THEN [error |-> "none", thunkCalls |-> 0, stream |-> TRUE]
         ELSE [error |-> "Internal", thunkCalls |-> 0, stream |-> FALSE]
    ELSE [error |-> "UnsupportedPathType", thunkCalls |-> 0,
          stream |-> FALSE]

\* _beginExtract without its second test: an active entry is let in again.
_beginExtractActiveOnly(entry) ==
    IF ~entry.triggering THEN "NotActive"
    ELSE "none"

\* Entry._beginExtract: the error it throws, "none" when it lets the call in.
_beginExtract(entry) ==
    IF ~entry.triggering THEN "NotActive"
    ELSE IF entry.extracted THEN "ExtractedOnce"
    ELSE "none"

\* ------------------------------------------------------------------- state
VARIABLES
    adapter,     \* the Archive subclass of the instance
    subpaths,    \* ArchiveDir.subpaths: null (set = FALSE) or a list
    reading,     \* Archive._reading
    afters,      \* Archive._afterReadSetAttributes
    pc,          \* where the read stands
    idx,         \* loop index: subpath, device, record
    stack,       \* fsWalk's stack
    ctx,         \* the each() call a callback was triggered from
    cur,         \* the entry the adapter holds: the one last delivered
    ret,         \* what its callback resolved to
    failure,     \* the error on its way out of read(), "none" if none
    fs,          \* the file system extracted to
    flushed,     \* what the flush has set attributes on, in order: the
                 \* resolved path and the calls made on it
    stopped,     \* a callback of this read resolved to false
    skipped,     \* the path of a Directory entry whose callback resolved to
                 \* null: any one of them is remembered, in a set of at most
                 \* one element
    calls,       \* callback invocations of this read (saturating)
    lastPath,    \* the path of the entry delivered last in this read
    allFalse,    \* every callback of this read resolved to false
    readErr,     \* the answer to the last read() call
    nOps,        \* consumption calls made on cur
    opResult,    \* the error of the last consumption call
    opKind,      \* the last consumption call: "stream", "extract", or
                 \* "reextract": extract where a record was pending
    attrCalls,   \* the attribute calls the last consumption call made
    opStream,    \* what the last stream call resolved to: "stream", "null",
                 \* or "none" when it threw and when there was none
    lsupported,  \* the platform has O_SYMLINK (fsLchmodSupported)
    attrOptions, \* the options of a direct setAttributes call
    createPath,  \* the path given to createArchiveByFileExtension
    created,     \* the adapter it returned, "null", or "none" before
    createStat,  \* what stat(createPath) finds: "dir", "file", "none"
    createFn,    \* the create function called, "none" before
    walkOpts,    \* ignoreUnreadableDirectories of the options given to
                 \* fsWalk
    fnArg,       \* the string given to a function of util.ts
    fnResult,    \* what it returned, call after call
    devices,     \* the disk image's devices: has a mount point or not
    mounted,     \* the disk image is attached
    ejects,      \* eject calls since the last attach
    input,       \* the TAR input stream, the ZIP file handle
    record,      \* the record last read from it: the TAR header's type
                 \* flag or "entry" for ZIP, the raw name, and for ZIP
                 \* the external file attributes
    body         \* the body of the TAR record at hand

vars == <<adapter, subpaths, reading, afters, pc, idx, stack, ctx, cur, ret,
          failure, fs, flushed, stopped, skipped, calls, lastPath, allFalse,
          readErr, nOps, opKind, opResult, attrCalls, opStream, lsupported,
          attrOptions, createPath, created, createStat, createFn, fnArg,
          fnResult, walkOpts, devices, mounted, ejects, input,
          body, record>>

configVars == <<adapter, subpaths, lsupported, attrOptions, walkOpts, createPath, created,
                createStat, createFn, fnArg, fnResult, walkOpts>>
monitorVars == <<stopped, skipped, calls, lastPath, allFalse>>
hdiVars == <<devices, mounted, ejects>>
streamVars == <<input, body, record>>

\* No record read yet.
NoRecord == [type |-> "none", name |-> <<>>]
opVars == <<nOps, opKind, opResult, attrCalls, opStream>>

Adapters == {"test", "dir", "tar", "targz", "tarbz2", "zip", "hdi"}

NoSubpaths == [set |-> FALSE, list |-> <<>>]

RECURSIVE SeqsUpTo(_, _)
SeqsUpTo(S, n) ==
    IF n = 0 THEN {<<>>}
    ELSE LET shorter == SeqsUpTo(S, n - 1)
         IN  shorter \cup {Append(q, x) : q \in shorter, x \in S}

\* The lists a caller assigns to subpaths: top-level names, in any order,
\* the empty list included.
SubpathLists == SeqsUpTo({<<n>> : n \in Names}, MaxSubpaths)

NoCtx == [where |-> "none", prefix |-> <<>>, rel |-> <<>>, stat |-> "other",
          phase |-> "main"]

Init ==
    /\ adapter \in Adapters
    /\ lsupported = TRUE
    /\ attrOptions = DefaultOptions
    /\ createPath = <<>>
    /\ created = "none"
    /\ createStat = "none"
    /\ createFn = "none"
    /\ fnArg = <<>>
    /\ fnResult = <<>>
    /\ walkOpts = TRUE
    /\ subpaths \in IF adapter = "dir"
                    THEN {NoSubpaths}
                         \cup {[set |-> TRUE, list |-> l] : l \in SubpathLists}
                    ELSE {NoSubpaths}
    /\ reading = FALSE
    /\ afters = NoAfters
    /\ pc = "idle"
    /\ idx = 0
    /\ stack = <<>>
    /\ ctx = NoCtx
    /\ cur = NoEntry
    /\ ret = "ok"
    /\ failure = "none"
    /\ fs = EmptyFs
    /\ flushed = <<>>
    /\ stopped = FALSE
    /\ skipped = {}
    /\ lastPath = <<>>
    /\ calls = 0
    /\ allFalse = TRUE
    /\ readErr = "none"
    /\ nOps = 0
    /\ opResult = "none"
    /\ attrCalls = <<>>
    /\ opKind = "none"
    /\ opStream = "none"
    /\ devices = <<>>
    /\ mounted = FALSE
    /\ ejects = 0
    /\ input = "none"
    /\ body = "none"
    /\ record = NoRecord

\* ------------------------------------------------------------- Archive.read
\* read(itter) past its guard, up to its call of _read: the flag is set
\* and the map is made anew.
ReadStart ==
    /\ reading' = TRUE
    /\ afters' = EmptyAfters
    /\ readErr' = "none"
    /\ pc' = "begin"
    /\ idx' = 0
    /\ stack' = <<>>
    /\ ctx' = NoCtx
    /\ cur' = NoEntry
    /\ ret' = "ok"
    /\ failure' = "none"
    /\ flushed' = <<>>
    /\ stopped' = FALSE
    /\ skipped' = {}
    /\ lastPath' = <<>>
    /\ calls' = 0
    /\ allFalse' = TRUE
    /\ nOps' = 0
    /\ opResult' = "none"
    /\ attrCalls' = <<>>
    /\ opKind' = "none"
    /\ opStream' = "none"
    /\ devices' = <<>>
    /\ mounted' = FALSE
    /\ ejects' = 0
    /\ input' = "none"
    /\ body' = "none"
    /\ record' = NoRecord
    /\ UNCHANGED <<configVars, fs>>

\* A read(itter) that lacks its guard.
ReadCallUnguarded == ReadStart

\* A read() that makes the new map before it tests the flag.
ReadCallMapFirst ==
    IF reading
    THEN /\ readErr' = "AlreadyBeingRead"
         /\ afters' = EmptyAfters
         /\ UNCHANGED <<configVars, reading, pc, idx, stack, ctx, cur,
                        ret, failure, fs, flushed, monitorVars, opVars,
                        hdiVars, streamVars>>
    ELSE ReadStart

\* read(itter): refused while a read is under way.
ReadCall ==
    IF reading
    THEN /\ readErr' = "AlreadyBeingRead"
         /\ UNCHANGED <<configVars, reading, afters, pc, idx, stack, ctx, cur,
                        ret, failure, fs, flushed, monitorVars, opVars,
                        hdiVars, streamVars>>
    ELSE ReadStart

\* An error that leaves _read past every finally block.
FailNoEject(cause) ==
    /\ failure' = cause
    /\ pc' = "finally"

\* An error after which read() still runs the flush.
FailThenFlush(cause) ==
    /\ failure' = cause
    /\ pc' = IF adapter = "hdi" /\ mounted THEN "eject" ELSE "flush"

\* An error leaves _read: a mounted disk image is ejected first.
Fail(cause) ==
    /\ failure' = cause
    /\ pc' = IF adapter = "hdi" /\ mounted THEN "eject" ELSE "finally"

\* _read has returned.
Discovered == pc' = IF adapter = "hdi" /\ mounted THEN "eject" ELSE "flush"

\* Entry.trigger up to the call of the callback.
Trigger(entry) == [entry EXCEPT !.triggered = TRUE, !.triggering = TRUE]

\* A trigger whose flag outlives the callback.
TriggerNoFinally(entry) == entry

\* The finally block of Entry.trigger.
TriggerFinally(entry) == [entry EXCEPT !.triggering = FALSE]

\* new this.Entry(...) and entry.trigger(itter): the callback is running.
Deliver(entry) ==
    /\ cur' = Trigger(entry)
    /\ pc' = "callback"
    /\ calls' = Min(calls + 1, CallsCap)
    /\ lastPath' = entry.path
    /\ nOps' = 0
    /\ opResult' = "none"
    /\ attrCalls' = <<>>
    /\ opKind' = "none"
    /\ opStream' = "none"
    /\ UNCHANGED <<stopped, skipped, allFalse>>

\* The adapter is done with the entry and with its callback's answer.
DropEntry == cur' = NoEntry /\ ret' = "ok"

\* The values a callback resolves to: false, null, anything else.
CallbackRets == {"ok", "false", "null"}

\* The callback resolves; trigger's finally ends the entry's active span.
CallbackReturn ==
    /\ pc = "callback"
    /\ \E r \in CallbackRets :
        /\ ret' = r
        /\ stopped' = (stopped \/ r = "false")
        /\ skipped' \in IF r = "null" /\ cur.type = DIRECTORY
                         THEN {skipped, {cur.path}} ELSE {skipped}
        /\ allFalse' = (allFalse /\ r = "false")
    /\ cur' = TriggerFinally(cur)
    /\ pc' = "returned"
    /\ UNCHANGED <<configVars, reading, afters, idx, stack, ctx, failure, fs,
                   flushed, calls, lastPath, readErr, opVars, hdiVars,
                   streamVars>>

\* The callback rejects: the error leaves trigger, each and _read (the ZIP
\* adapter closes its file on the way).
CallbackThrow ==
    /\ pc = "callback"
    /\ cur' = TriggerFinally(cur)
    /\ allFalse' = FALSE
    /\ Fail("callback")
    /\ input' = IF adapter = "zip" THEN "closed" ELSE input
    /\ UNCHANGED <<configVars, reading, afters, idx, stack, ctx, ret, fs,
                   flushed, stopped, skipped, calls, lastPath, readErr,
                   opVars, hdiVars, body, record>>

\* entry.setAttributes(path, null, options) on one record of the map.
Flush(rec, l) ==
    [resolved |-> rec.resolved,
     calls |-> setAttributes(rec.entry, rec.options, l)]

\* A flush that a stop signal turns off.
AfterReadSetAttributesTriggerUnlessStopped ==
    /\ pc = "flush"
    /\ flushed' = IF stopped THEN <<>>
                  ELSE [i \in 1..Len(afters.recs) |->
                           Flush(SortByLength(afters.recs)[i], lsupported)]
    /\ failure' = "none"
    /\ pc' = "finally"
    /\ UNCHANGED <<configVars, reading, afters, idx, stack, ctx, cur, ret, fs,
                   monitorVars, readErr, opVars, hdiVars, streamVars>>

\* _afterReadSetAttributesTrigger: setAttributes on every record, longest
\* resolved path first.  A chmod or utimes that fails ends the flush there.
AfterReadSetAttributesTrigger ==
    /\ pc = "flush"
    /\ LET order == SortByLength(afters.recs)
           MakesCall(i) ==
               setAttributes(order[i].entry, order[i].options, lsupported)
                   # <<>>
       IN  \/ /\ flushed' = [i \in 1..Len(order) |->
                                 Flush(order[i], lsupported)]
              /\ failure' = "none"
           \/ \E k \in 1..Len(order) :
                /\ MakesCall(k)
                /\ flushed' = [i \in 1..(k - 1) |->
                                   Flush(order[i], lsupported)]
                /\ failure' = "flush"
    /\ pc' = "finally"
    /\ UNCHANGED <<configVars, reading, afters, idx, stack, ctx, cur, ret, fs,
                   monitorVars, readErr, opVars, hdiVars, streamVars>>

\* A read() that clears the map and the flag only when nothing was thrown.
ReadFinallyOnSuccess ==
    /\ pc = "finally"
    /\ afters' = IF failure = "none" THEN NoAfters ELSE afters
    /\ reading' = (failure # "none")
    /\ pc' = "settled"
    /\ UNCHANGED <<configVars, idx, stack, ctx, cur, ret, failure, fs,
                   flushed, monitorVars, readErr, opVars, hdiVars, streamVars>>

\* The finally block of read(): the map and the flag are cleared, and the
\* promise settles: it rejects with the failure, if any, else it resolves.
ReadFinally ==
    /\ pc = "finally"
    /\ afters' = NoAfters
    /\ reading' = FALSE
    /\ pc' = "settled"
    /\ UNCHANGED <<configVars, idx, stack, ctx, cur, ret, failure, fs,
                   flushed, monitorVars, readErr, opVars, hdiVars, streamVars>>

\* ------------------------------------------------------------- test archive
\* testEntries: the entries ArchiveTest delivers, in order.
TestEntry(type, name, mode, atime, mtime, thunks) ==
    NewEntry(type, name, mode, atime, mtime, thunks)

testEntries ==
    <<TestEntry(FILE, <<"file.txt">>, NoMode, NoTime, NoTime, {"data"}),
      TestEntry(DIRECTORY, <<"directory">>, NoMode, NoTime, NoTime, {}),
      TestEntry(SYMLINK, <<"symlink">>, NoMode, NoTime, NoTime, {"symlink"}),
      TestEntry(FILE, <<"directory", "subfile.txt">>, NoMode, NoTime, NoTime,
                {"data"}),
      TestEntry(FILE, <<"unknown", "orphaned.txt">>, NoMode, NoTime, NoTime,
                {"data"}),
      TestEntry(FILE, <<"nonexecutable.txt">>, 420, 2013, 2014, {"data"}),
      TestEntry(FILE, <<"executable.sh">>, 493, 2013, 2014, {"data"}),
      TestEntry(SYMLINK, <<"nonexecutable-link">>, 420, 2013, 2014,
                {"symlink"}),
      TestEntry(SYMLINK, <<"executable-link">>, 493, 2013, 2014,
                {"symlink"}),
      TestEntry(DIRECTORY, <<"dir-owner">>, 448, 2013, 2014, {}),
      TestEntry(FILE, <<"dir-owner", "sub.txt">>, NoMode, NoTime, NoTime,
                {"data"}),
      TestEntry(DIRECTORY, <<"dir-group">>, 504, 2013, 2014, {}),
      TestEntry(FILE, <<"dir-group", "sub.txt">>, NoMode, NoTime, NoTime,
                {"data"}),
      TestEntry(FILE, <<"rsrc-content.bin">>, NoMode, NoTime, NoTime,
                {"data"}),
      TestEntry(RESOURCE_FORK, <<"rsrc-content.bin">>, NoMode, NoTime, NoTime,
                {"rsrc"})>>

\* ArchiveTest._read: the head of its for loop.
TestNext ==
    /\ adapter = "test"
    /\ pc \in {"begin", "loop"}
    /\ LET i == IF pc = "begin" THEN 1 ELSE idx
       IN  /\ idx' = i
           /\ IF i > Len(testEntries)
              THEN /\ Discovered
                   /\ UNCHANGED <<cur, monitorVars, opVars>>
              ELSE Deliver(testEntries[i])
    /\ UNCHANGED <<configVars, reading, afters, stack, ctx, ret, failure, fs,
                   flushed, readErr, hdiVars, streamVars>>

\* ArchiveTest._read after await entry.trigger(itter).
\* A loop that goes on to the next entry without awaiting the trigger.
TestResumeEager ==
    /\ adapter = "test"
    /\ pc \in {"callback", "returned"}
    /\ IF ret = "false"
       THEN Discovered /\ UNCHANGED idx
       ELSE pc' = "loop" /\ idx' = idx + 1
    /\ DropEntry
    /\ UNCHANGED <<configVars, reading, afters, stack, ctx, failure,
                   fs, flushed, monitorVars, readErr, opVars,
                   hdiVars, streamVars>>

TestResume ==
    /\ adapter = "test"
    /\ pc = "returned"
    /\ IF ret = "false"
       THEN Discovered /\ UNCHANGED idx
       ELSE pc' = "loop" /\ idx' = idx + 1
    /\ DropEntry
    /\ UNCHANGED <<configVars, reading, afters, stack, ctx, failure,
                   fs, flushed, monitorVars, readErr, opVars,
                   hdiVars, streamVars>>

\* -------------------------------------------------------------------- fsWalk
\* Mode bits lstat reports for each kind of object (type bits and 0755,
\* 0644, 0777), and its times.
StatMode(stat) ==
    IF stat = "dir" THEN 16877
    ELSE IF stat = "symlink" THEN 41471
    ELSE 33188

StatAtime == 1
StatMtime == 2

\* The entry each() builds from a path and its stat.
StatEntry(pathRaw, stat) ==
    NewEntry(statToPathType(stat), pathRaw, StatMode(stat), StatAtime,
             StatMtime,
             IF stat = "file" THEN {"data"}
             ELSE IF stat = "symlink" THEN {"symlink"} ELSE {})

\* The resource-fork entry each() builds after a File entry.
RsrcEntry(pathRaw) ==
    NewEntry(RESOURCE_FORK, pathRaw, StatMode("file"), StatAtime, StatMtime,
             {"rsrc"})

\* A readdir wrapper that hands the names over last name first.
ListingsDescending(depth) ==
    IF depth >= MaxDepth THEN {<<>>}
    ELSE {Reverse(SubSeq(SortedNames, 1, k)) : k \in 0..MaxNames}

\* The listings fsReaddir can return for a directory depth levels below
\* the walk's base: sorted, of every size up to MaxNames (the names of a
\* listing being of no account to the walk), and empty at the deepest
\* level.
Listings(depth) ==
    IF depth >= MaxDepth THEN {<<>>}
    ELSE {SubSeq(SortedNames, 1, k) : k \in 0..MaxNames}

\* Depth of the walked directory base/rel below the archive's root.
WalkDepth(prefix, rel) == Len(prefix) + Len(rel)

\* fsWalk has returned to its caller in _read.
WalkEnd ==
    /\ stack' = <<>>
    /\ IF adapter = "dir" /\ ~subpaths.set
       THEN Discovered /\ UNCHANGED idx
       ELSE /\ idx' = idx + 1
            /\ pc' = IF adapter = "dir" THEN "subloop" ELSE "devloop"

\* What fsReaddir did last in a walk: the directory listed and the code
\* of the error thrown, "ok" when none.
Readdir(path, code) == [type |-> "readdir", name |-> path, code |-> code]

\* The cause a failing fsReaddir leaves read() with: a permission error
\* is told from the others.
ReaddirCause(code) == IF code = "EACCES" THEN "EACCES" ELSE "discovery"

\* The errors fsReaddir can throw: a permission error and another one.
ReaddirErrors == {"EACCES", "EIO"}

\* fsWalk up to its loop: the listing of base, reversed onto the stack.
\* A failing readdir of base is not forgiven.
WalkStart(prefix) ==
    \/ /\ \E l \in Listings(WalkDepth(prefix, <<>>)) :
            stack' = Reverse([i \in 1..Len(l) |-> <<l[i]>>])
       /\ ctx' = [NoCtx EXCEPT !.where = "walk", !.prefix = prefix]
       /\ pc' = "walk"
       /\ record' = Readdir(prefix, "ok")
       /\ UNCHANGED <<idx, failure>>
    \/ \E code \in ReaddirErrors :
         /\ Fail(ReaddirCause(code))
         /\ record' = Readdir(prefix, code)
         /\ UNCHANGED <<idx, stack, ctx>>

\* One turn of fsWalk's loop up to the callback: pop, lstat, each().  A path
\* of unsupported type is not delivered and, not being a directory, not
\* descended into.
WalkStep ==
    /\ adapter \in {"dir", "hdi"}
    /\ pc = "walk"
    /\ IF stack = <<>>
       THEN /\ WalkEnd
            /\ ctx' = NoCtx
            /\ UNCHANGED <<cur, failure, monitorVars, opVars>>
       ELSE LET entry == stack[Len(stack)]
                rest == SubSeq(stack, 1, Len(stack) - 1)
            IN  \/ \E stat \in StatKinds :
                     /\ stack' = rest
                     /\ IF statToPathType(stat) = "null"
                        THEN UNCHANGED <<pc, ctx, cur, monitorVars, opVars>>
                        ELSE /\ Deliver(StatEntry(ctx.prefix \o entry, stat))
                             /\ ctx' = [ctx EXCEPT !.rel = entry,
                                                   !.stat = stat]
                     /\ UNCHANGED <<idx, failure>>
                \/ /\ Fail("discovery")
                   /\ stack' = rest
                   /\ UNCHANGED <<idx, ctx, cur, monitorVars, opVars>>
    /\ record' = NoRecord
    /\ UNCHANGED <<configVars, reading, afters, ret, fs, flushed, readErr,
                   hdiVars, input, body>>

\* An each() that hands a callback's null on as "go on".
EachResultNoSkip ==
    IF ret = "false" THEN "null"
    ELSE IF cur.type = FILE /\ ret # "null" THEN "probe"
    ELSE "true"

\* An each() that looks for a resource fork after an entry of any type.
EachResultProbeAll ==
    IF ret = "false" THEN "null"
    ELSE IF ret = "null" THEN "false"
    ELSE "probe"

\* What each() returns to fsWalk for a callback result: null ends the walk,
\* false keeps it out of the directory.  "probe" stands for the point where
\* each() goes on to look for a resource fork.
EachResult ==
    IF ret = "false" THEN "null"
    ELSE IF ret = "null" THEN "false"
    ELSE IF cur.type = FILE THEN "probe"
    ELSE "true"

\* fsWalk at the head of its loop: the frame of the last each() is gone.
LoopCtx == [NoCtx EXCEPT !.where = "walk", !.prefix = ctx.prefix]

\* A walk that forgives a permission error whatever its options.
WalkAfterItterForgiving(recurse) ==
    IF recurse = "null"
    THEN WalkEnd /\ ctx' = NoCtx /\ UNCHANGED <<failure, record>>
    ELSE IF recurse = "false" \/ ctx.stat # "dir"
    THEN /\ pc' = "walk"
         /\ ctx' = LoopCtx
         /\ UNCHANGED <<idx, stack, failure, record>>
    ELSE \/ /\ \E subs \in Listings(WalkDepth(ctx.prefix, ctx.rel)) :
                 stack' = stack \o Reverse([i \in 1..Len(subs) |->
                                               Append(ctx.rel, subs[i])])
            /\ pc' = "walk"
            /\ ctx' = LoopCtx
            /\ record' = Readdir(ctx.prefix \o ctx.rel, "ok")
            /\ UNCHANGED <<idx, failure>>
         \/ \E code \in ReaddirErrors :
              /\ record' = Readdir(ctx.prefix \o ctx.rel, code)
              /\ IF code = "EACCES"
                 THEN /\ pc' = "walk"
                      /\ ctx' = LoopCtx
                      /\ UNCHANGED <<idx, stack, failure>>
                 ELSE /\ Fail(ReaddirCause(code))
                      /\ UNCHANGED <<idx, stack, ctx>>

\* fsWalk after await itter(entry, stat), given what each() returned: a
\* directory gone into is listed, and a permission error of that listing
\* leaves it without children when the options say so.
WalkAfterItter(recurse) ==
    IF recurse = "null"
    THEN WalkEnd /\ ctx' = NoCtx /\ UNCHANGED <<failure, record>>
    ELSE IF recurse = "false" \/ ctx.stat # "dir"
    THEN /\ pc' = "walk"
         /\ ctx' = LoopCtx
         /\ UNCHANGED <<idx, stack, failure, record>>
    ELSE \/ /\ \E subs \in Listings(WalkDepth(ctx.prefix, ctx.rel)) :
                 stack' = stack \o Reverse([i \in 1..Len(subs) |->
                                               Append(ctx.rel, subs[i])])
            /\ pc' = "walk"
            /\ ctx' = LoopCtx
            /\ record' = Readdir(ctx.prefix \o ctx.rel, "ok")
            /\ UNCHANGED <<idx, failure>>
         \/ \E code \in ReaddirErrors :
              /\ record' = Readdir(ctx.prefix \o ctx.rel, code)
              /\ IF walkOpts /\ code = "EACCES"
                 THEN /\ pc' = "walk"
                      /\ ctx' = LoopCtx
                      /\ UNCHANGED <<idx, stack, failure>>
                 ELSE /\ Fail(ReaddirCause(code))
                      /\ UNCHANGED <<idx, stack, ctx>>

\* each() has returned recurse to its caller: the subpaths loop drops the
\* value and walks the subpath if it is a directory, fsWalk acts on it.
EachReturn(recurse) ==
    IF ctx.where = "top"
    THEN IF ctx.stat = "dir"
         THEN WalkStart(ctx.rel)
         ELSE /\ idx' = idx + 1
              /\ pc' = "subloop"
              /\ ctx' = NoCtx
              /\ UNCHANGED <<stack, failure, record>>
    ELSE WalkAfterItter(recurse)

\* each() of the directory and disk-image adapters after
\* await entry.trigger(itter): the callback's answer becomes the walk's
\* hint; after a File entry the resource fork is looked for and, when
\* there, delivered as a second entry with the same raw path.
EachResume ==
    /\ adapter \in {"dir", "hdi"}
    /\ pc = "returned"
    /\ IF EachResult = "probe"
       THEN \/ /\ Deliver(RsrcEntry(cur.path))
               /\ ctx' = [ctx EXCEPT !.phase = "rsrc"]
               /\ UNCHANGED <<idx, stack, failure, ret, record>>
            \/ /\ EachReturn("true")
               /\ DropEntry
               /\ UNCHANGED <<monitorVars, opVars>>
            \/ /\ Fail("discovery")
               /\ DropEntry
               /\ UNCHANGED <<idx, stack, ctx, monitorVars, opVars, record>>
       ELSE /\ EachReturn(EachResult)
            /\ DropEntry
            /\ UNCHANGED <<monitorVars, opVars>>
    /\ UNCHANGED <<configVars, reading, afters, fs, flushed, readErr,
                   hdiVars, input, body>>

\* --------------------------------------------------------------- ArchiveDir
\* ArchiveDir._read up to its loops: the subpaths list, when set (an empty
\* list too), replaces the walk of the whole tree.
DirBegin ==
    /\ adapter = "dir"
    /\ pc = "begin"
    /\ IF subpaths.set
       THEN /\ idx' = 1
            /\ pc' = "subloop"
            /\ UNCHANGED <<stack, ctx, failure, record>>
       ELSE WalkStart(<<>>)
    /\ UNCHANGED <<configVars, reading, afters, cur, ret, fs, flushed,
                   monitorVars, readErr, opVars, hdiVars, input, body>>

\* The head of the subpaths loop: lstat of the subpath and each() on it.
DirSubNext ==
    /\ adapter = "dir"
    /\ pc = "subloop"
    /\ IF idx > Len(subpaths.list)
       THEN /\ Discovered
            /\ UNCHANGED <<idx, ctx, cur, failure, monitorVars, opVars>>
       ELSE \/ \E stat \in StatKinds :
                 /\ IF statToPathType(stat) = "null"
                    THEN /\ idx' = idx + 1
                         /\ UNCHANGED <<pc, ctx, cur, monitorVars, opVars>>
                    ELSE /\ Deliver(StatEntry(subpaths.list[idx], stat))
                         /\ ctx' = [where |-> "top", prefix |-> <<>>,
                                    rel |-> subpaths.list[idx],
                                    stat |-> stat, phase |-> "main"]
                         /\ UNCHANGED idx
                 /\ UNCHANGED failure
            \/ /\ Fail("discovery")
               /\ UNCHANGED <<idx, ctx, cur, monitorVars, opVars>>
    /\ UNCHANGED <<configVars, reading, afters, stack, ret, fs, flushed,
                   readErr, hdiVars, streamVars>>

\* ---------------------------------------------------------------- ArchiveHdi
VolumeAlphabet == <<"v", "w", "u", "t">>

\* basename(mountPoint) of the i-th device.
VolumeName(i) == VolumeAlphabet[i]

\* The device lists attach can return: each device with a mount point or
\* without one.
DeviceLists == SeqsUpTo(BOOLEAN, MaxVolumes)

\* ArchiveHdi._read up to its try block: attach the image.
HdiAttach ==
    /\ adapter = "hdi"
    /\ pc = "begin"
    /\ \/ /\ devices' \in DeviceLists
          /\ mounted' = TRUE
          /\ ejects' = 0
          /\ idx' = 1
          /\ pc' = "devloop"
          /\ UNCHANGED failure
       \/ /\ Fail("attach")
          /\ UNCHANGED <<idx, devices, mounted, ejects>>
    /\ UNCHANGED <<configVars, reading, afters, stack, ctx, cur, ret, fs,
                   flushed, monitorVars, readErr, opVars,
                   streamVars>>

\* The head of the device loop: a device without mount point is passed
\* over, the others are walked under their volume name.
HdiDeviceNext ==
    /\ adapter = "hdi"
    /\ pc = "devloop"
    /\ IF idx > Len(devices)
       THEN Discovered /\ UNCHANGED <<idx, stack, ctx, failure, record>>
       ELSE IF ~devices[idx]
       THEN idx' = idx + 1 /\ UNCHANGED <<pc, stack, ctx, failure, record>>
       ELSE WalkStart(<<VolumeName(idx)>>)
    /\ UNCHANGED <<configVars, reading, afters, cur, ret, fs, flushed,
                   monitorVars, readErr, opVars, hdiVars, input, body>>

\* The finally block of ArchiveHdi._read: eject, which may itself fail.
HdiEject ==
    /\ adapter = "hdi"
    /\ pc = "eject"
    /\ ejects' = ejects + 1
    /\ mounted' = FALSE
    /\ \/ /\ UNCHANGED failure
          /\ pc' = IF failure = "none" THEN "flush" ELSE "finally"
       \/ /\ failure' = "eject"
          /\ pc' = "finally"
    /\ UNCHANGED <<configVars, reading, afters, idx, stack, ctx, cur, ret, fs,
                   flushed, monitorVars, readErr, opVars, devices,
                   streamVars>>

\* ---------------------------------------------------------------- ArchiveTar
\* header.linkname when the header has none (null or undefined); a link
\* name is a sequence of characters.
NoLinkname == <<"null">>

\* The headers the TAR parser can hand over: the type flag, the link name
\* and the declared size.  A symlink's declared size is 0 as a rule; the
\* modelled one differs from the length of the link name in bytes and in
\* characters.
TarHeaders ==
    {[type |-> "file", linkname |-> NoLinkname, size |-> 5],
     [type |-> "directory", linkname |-> NoLinkname, size |-> 0],
     [type |-> "symlink", linkname |-> <<"t", "U+00E9">>, size |-> 7],
     [type |-> "symlink", linkname |-> NoLinkname, size |-> 0],
     [type |-> "link", linkname |-> <<"t">>, size |-> 0]}

\* The bytes of a character in UTF-8; a character outside ASCII is written
\* as its code point.
Utf8Bytes(c) ==
    IF c = "U+00E9" THEN 2
    ELSE IF c = "U+20AC" THEN 3
    ELSE 1

\* Buffer.from(str, 'utf8').length
RECURSIVE BufferLength(_)
BufferLength(str) ==
    IF str = <<>> THEN 0
    ELSE Utf8Bytes(Head(str)) + BufferLength(Tail(str))

TarAdapters == {"tar", "targz", "tarbz2"}

\* Header mode and time of the modelled records.
TarMode == 420
TarMtime == 3

\* header.name of the i-th record.
TarName(i) == <<Alphabet[i]>>

\* A type switch that takes a hard link for a file.
TarTypeLinkAsFile(header) ==
    IF header.type \in {"file", "link"} THEN FILE
    ELSE IF header.type = "symlink" THEN SYMLINK
    ELSE IF header.type = "directory" THEN DIRECTORY
    ELSE "skip"

\* The type each() gives a header, "skip" for the flags it passes over.
TarType(header) ==
    IF header.type = "file" THEN FILE
    ELSE IF header.type = "symlink" THEN SYMLINK
    ELSE IF header.type = "directory" THEN DIRECTORY
    ELSE "skip"

\* An entry with the size its header declares.
TarEntryHeaderSize(i, header) ==
    [NewEntry(TarType(header), TarName(i), TarMode, NoTime, TarMtime,
              (IF TarType(header) = FILE THEN {"data"} ELSE {})
              \cup (IF header.linkname # NoLinkname THEN {"symlink"} ELSE {}))
     EXCEPT !.size = header.size]

\* The entry each() builds from a header: a symlink's size is that of its
\* link name in UTF-8.
TarEntry(i, header) ==
    [NewEntry(TarType(header), TarName(i), TarMode, NoTime, TarMtime,
              (IF TarType(header) = FILE THEN {"data"} ELSE {})
              \cup (IF header.linkname # NoLinkname THEN {"symlink"} ELSE {}))
     EXCEPT !.size = IF TarType(header) = SYMLINK
                     THEN BufferLength(header.linkname)
                     ELSE header.size]

\* ArchiveTar._read: the head of the for-await loop and each() up to the
\* callback.  The decompressed stream yields a record, ends, or fails; a
\* record of another type is not delivered and its body is read to the
\* end; a symlink header without link name is an internal error.
TarNext ==
    /\ adapter \in TarAdapters
    /\ pc \in {"begin", "loop"}
    /\ LET i == IF pc = "begin" THEN 1 ELSE idx
       IN  \/ /\ i <= MaxRecords
              /\ input' = "open"
              /\ \E header \in TarHeaders :
                   /\ record' = [type |-> header.type, name |-> TarName(i)]
                   /\ IF TarType(header) = "skip"
                      THEN \/ /\ pc' = "loop"
                              /\ idx' = i + 1
                              /\ body' = "drained"
                              /\ UNCHANGED <<failure, cur, monitorVars, opVars>>
                           \/ /\ Fail("discovery")
                              /\ idx' = i
                              /\ body' = "pending"
                              /\ UNCHANGED <<cur, monitorVars, opVars>>
                      ELSE IF TarType(header) = SYMLINK
                              /\ header.linkname = NoLinkname
                      THEN /\ Fail("discovery")
                           /\ idx' = i
                           /\ body' = "pending"
                           /\ UNCHANGED <<cur, monitorVars, opVars>>
                      ELSE /\ Deliver(TarEntry(i, header))
                           /\ idx' = i
                           /\ body' = "pending"
                           /\ UNCHANGED failure
           \/ /\ Discovered
              /\ idx' = i
              /\ input' = "ended"
              /\ body' = "none"
              /\ record' = NoRecord
              /\ UNCHANGED <<failure, cur, monitorVars, opVars>>
           \/ /\ Fail("discovery")
              /\ idx' = i
              /\ input' = "open"
              /\ body' = "none"
              /\ record' = NoRecord
              /\ UNCHANGED <<cur, monitorVars, opVars>>
    /\ UNCHANGED <<configVars, reading, afters, stack, ctx, ret, fs, flushed,
                   readErr, hdiVars>>

\* A loop that reads the body to its end before it honours false.
TarResumeDrainFirst ==
    /\ adapter \in TarAdapters
    /\ pc = "returned"
    /\ IF ret = "false"
       THEN /\ Discovered
            /\ input' = "destroyed"
            /\ body' = "drained"
            /\ UNCHANGED <<idx, failure>>
       ELSE \/ /\ pc' = "loop"
               /\ idx' = idx + 1
               /\ body' = "drained"
               /\ UNCHANGED <<input, failure>>
            \/ /\ Fail("discovery")
               /\ UNCHANGED <<idx, input, body>>
    /\ DropEntry
    /\ UNCHANGED <<configVars, reading, afters, stack, ctx, fs,
                   flushed, monitorVars, readErr, opVars,
                   hdiVars, record>>

\* ArchiveTar._read after await each(): false from the callback breaks the
\* loop, which leaves the body unread and destroys the input; otherwise the
\* body is read to its end (which may fail) and the loop goes on.
TarResume ==
    /\ adapter \in TarAdapters
    /\ pc = "returned"
    /\ IF ret = "false"
       THEN /\ Discovered
            /\ input' = "destroyed"
            /\ body' = "abandoned"
            /\ UNCHANGED <<idx, failure>>
       ELSE \/ /\ pc' = "loop"
               /\ idx' = idx + 1
               /\ body' = "drained"
               /\ UNCHANGED <<input, failure>>
            \/ /\ Fail("discovery")
               /\ UNCHANGED <<idx, input, body>>
    /\ DropEntry
    /\ UNCHANGED <<configVars, reading, afters, stack, ctx, fs,
                   flushed, monitorVars, readErr, opVars,
                   hdiVars, record>>

\* ---------------------------------------------------------------- ArchiveZip
\* Strings that are inspected character by character are sequences of
\* one-character strings.
Last(str) == str[Len(str)]

RECURSIVE StripSlashes(_)
StripSlashes(str) ==
    IF str # <<>> /\ Last(str) = "/"
    THEN StripSlashes(SubSeq(str, 1, Len(str) - 1))
    ELSE str

\* A normalisation that replaces the backslashes and no more.
pathNormalizeNoStrip(path) ==
    [i \in 1..Len(path) |-> IF path[i] = "\\" THEN "/" ELSE path[i]]

\* path.replace(/\\/g, '/').replace(/([^/])\/+$/, '$1'): the trailing run
\* of slashes goes when a character other than a slash stands before it.
pathNormalize(path) ==
    LET slashed == [i \in 1..Len(path) |->
                       IF path[i] = "\\" THEN "/" ELSE path[i]]
        stripped == StripSlashes(slashed)
    IN  IF stripped = <<>> THEN slashed ELSE stripped

MacPrefix == <<"_", "_", "M", "A", "C", "O", "S", "X">>

\* A test for what lies below __MACOSX/ only.
pathIsMacResourceSlash(path) ==
    /\ IsPrefix(MacPrefix, path)
    /\ Len(path) > Len(MacPrefix)
    /\ path[Len(MacPrefix) + 1] = "/"

\* /^__MACOSX(\\|\/|$)/.test(path)
pathIsMacResource(path) ==
    /\ IsPrefix(MacPrefix, path)
    /\ \/ Len(path) = Len(MacPrefix)
       \/ path[Len(MacPrefix) + 1] \in {"\\", "/"}

\* Bit k of a non-negative number.
Bit(x, k) == (x \div (2 ^ k)) % 2

\* (value & mask) === mask, on the 16 bits of a Unix mode.
bitwiseAndEqual(value, mask) ==
    \A k \in 0..15 : Bit(mask, k) = 1 => Bit(value, k) = 1

\* 0o120000, 0o040000, 0o100000
S_IFLNK == 40960
S_IFDIR == 16384
S_IFREG == 32768

modeToPathType(mode) ==
    IF bitwiseAndEqual(mode, S_IFLNK) THEN SYMLINK
    ELSE IF bitwiseAndEqual(mode, S_IFDIR) THEN DIRECTORY
    ELSE IF bitwiseAndEqual(mode, S_IFREG) THEN FILE
    ELSE "null"

\* The unsigned 32-bit external file attributes are held as their two
\* 16-bit halves (the whole does not fit a 32-bit signed integer).
Efa(hi, lo) == [hi |-> hi, lo |-> lo]

\* attrs >>> 16
efaToUnix(attrs) == attrs.hi

\* The Unix mode when its type bits (12 to 15) are not all zero, else null.
efaToUnixMode(attrs) ==
    LET mode == efaToUnix(attrs)
    IN  IF (mode \div 4096) % 16 # 0 THEN mode ELSE NoMode

\* A classification that looks at the path first.
efaOrPathToPathTypePathFirst(attrs, path) ==
    LET mode == efaToUnixMode(attrs)
    IN  IF path # <<>> /\ Last(path) \in {"/", "\\"} THEN DIRECTORY
        ELSE IF mode = NoMode THEN FILE
        ELSE modeToPathType(mode)

\* ArchiveZip.efaOrPathToPathType
efaOrPathToPathType(attrs, path) ==
    LET mode == efaToUnixMode(attrs)
    IN  IF mode = NoMode
        THEN IF path # <<>> /\ Last(path) \in {"/", "\\"}
             THEN DIRECTORY ELSE FILE
        ELSE modeToPathType(mode)

\* External file attributes of the modelled entries: none from Unix
\* (MS-DOS directory bit only), a regular file 0644, a directory 0755, a
\* symbolic link 0777, a FIFO 0644, a socket 0644.
ZipAttrs ==
    {Efa(0, 16), Efa(33188, 0), Efa(16877, 16), Efa(41471, 0), Efa(4516, 0),
     Efa(49572, 0)}

\* File names of the modelled entries.
ZipNames ==
    {<<"a">>, <<"d", "/">>, <<"d", "\\">>, MacPrefix,
     MacPrefix \o <<"/", "a">>, MacPrefix \o <<"\\", "a">>,
     MacPrefix \o <<"a">>}

ZipMtime == 4

\* uncompressedSize of the modelled entries.
ZipSizes == {0, 3}

\* What yauzlEntryRead resolves to.
yauzlEntryRead(uncompressedSize) ==
    IF uncompressedSize = 0 THEN "null" ELSE "stream"

\* The entry each() builds from a central-directory record.
ZipEntry(attrs, fileName, uncompressedSize) ==
    LET type == efaOrPathToPathType(attrs, fileName)
    IN  [NewEntry(type, pathNormalize(fileName), efaToUnixMode(attrs), NoTime,
                  ZipMtime,
                  IF type = FILE THEN {"data"}
                  ELSE IF type = SYMLINK THEN {"symlink"} ELSE {})
         EXCEPT !.size = uncompressedSize,
                !.readData = yauzlEntryRead(uncompressedSize)]

\* ArchiveZip._read up to the first readEntry: open the file.
ZipOpen ==
    /\ adapter = "zip"
    /\ pc = "begin"
    /\ \/ /\ input' = "open"
          /\ idx' = 1
          /\ pc' = "loop"
          /\ UNCHANGED failure
       \/ /\ Fail("discovery")
          /\ UNCHANGED <<idx, input>>
    /\ UNCHANGED <<configVars, reading, afters, stack, ctx, cur, ret, fs,
                   flushed, monitorVars, readErr, opVars, hdiVars,
                   body, record>>

\* zipfile.readEntry() and what it raises: an entry, handed to each() up
\* to the callback (an entry of no supported type or under __MACOSX is
\* passed over and the next one asked for); the end, which closes the file
\* and resolves; an error, which closes the file and rejects.
ZipNext ==
    /\ adapter = "zip"
    /\ pc = "loop"
    /\ \/ /\ idx <= MaxRecords
          /\ \E attrs \in ZipAttrs, fileName \in ZipNames,
                uncompressedSize \in ZipSizes :
               /\ record' = [type |-> "entry", name |-> fileName,
                              attrs |-> attrs]
               /\ IF \/ efaOrPathToPathType(attrs, fileName) = "null"
                     \/ pathIsMacResource(fileName)
                  THEN /\ idx' = idx + 1
                       /\ UNCHANGED <<pc, cur, monitorVars, opVars>>
                  ELSE /\ Deliver(ZipEntry(attrs, fileName, uncompressedSize))
                       /\ UNCHANGED idx
          /\ UNCHANGED <<failure, input>>
       \/ /\ Discovered
          /\ input' = "closed"
          /\ record' = NoRecord
          /\ UNCHANGED <<idx, failure, cur, monitorVars, opVars>>
       \/ /\ Fail("discovery")
          /\ input' = "closed"
          /\ record' = NoRecord
          /\ UNCHANGED <<idx, cur, monitorVars, opVars>>
    /\ UNCHANGED <<configVars, reading, afters, stack, ctx, ret, fs, flushed,
                   readErr, hdiVars, body>>

\* An entry handler that takes every falsy answer for the stop signal.
ZipResumeFalsy ==
    /\ adapter = "zip"
    /\ pc = "returned"
    /\ IF ret \in {"false", "null"}
       THEN Discovered /\ input' = "closed" /\ UNCHANGED idx
       ELSE pc' = "loop" /\ idx' = idx + 1 /\ UNCHANGED input
    /\ DropEntry
    /\ UNCHANGED <<configVars, reading, afters, stack, ctx, failure, fs,
                   flushed, monitorVars, readErr, opVars, hdiVars,
                   body, record>>

\* The entry handler after each() resolved: false from the callback closes
\* the file, which resolves the read; anything else asks for the next
\* entry.
ZipResume ==
    /\ adapter = "zip"
    /\ pc = "returned"
    /\ IF ret = "false"
       THEN Discovered /\ input' = "closed" /\ UNCHANGED idx
       ELSE pc' = "loop" /\ idx' = idx + 1 /\ UNCHANGED input
    /\ DropEntry
    /\ UNCHANGED <<configVars, reading, afters, stack, ctx, failure, fs,
                   flushed, monitorVars, readErr, opVars, hdiVars,
                   body, record>>

\* ------------------------------------------------------ Entry consumption
StreamOps == {"stream", "read", "readBuffer"}

\* Entry.stream, Entry.read and Entry.readBuffer, called on the entry at
\* hand: _beginExtract, then _stream.  readBuffer drains the stream, so a
\* symbolic link's thunk runs with it; stream and read hand the stream
\* over unread.
EntryStream ==
    /\ cur.type # "none"
    /\ nOps < MaxOps
    /\ nOps' = nOps + 1
    /\ attrCalls' = <<>>
    /\ opKind' = "stream"
    /\ \E op \in StreamOps :
        LET begin == _beginExtract(cur)
            res == _stream(cur)
            drained == cur.type = SYMLINK /\ res.stream /\ op = "readBuffer"
        IN  IF begin # "none"
            THEN opResult' = begin /\ opStream' = "none" /\ UNCHANGED cur
            ELSE /\ opResult' = res.error
                 /\ opStream' = IF res.error # "none" THEN "none"
                                ELSE IF res.stream THEN "stream" ELSE "null"
                 /\ cur' = [cur EXCEPT
                        !.extracted = TRUE,
                        !.thunkCalls = @ + res.thunkCalls
                                         + (IF drained THEN 1 ELSE 0),
                        !.lazy = (cur.type = SYMLINK /\ res.stream
                                  /\ ~drained)]
    /\ UNCHANGED <<configVars, reading, afters, pc, idx, stack, ctx, ret,
                   failure, fs, flushed, monitorVars, readErr,
                   hdiVars, streamVars>>

\* The caller reads from the stream of a symbolic link: its first read
\* runs the readSymlink thunk.
EntryStreamPull ==
    /\ cur.lazy
    /\ cur' = [cur EXCEPT !.lazy = FALSE, !.thunkCalls = @ + 1]
    /\ UNCHANGED <<configVars, reading, afters, pc, idx, stack, ctx, ret,
                   failure, fs, flushed, monitorVars, readErr,
                   opVars, hdiVars, streamVars>>

\* An extract that marks the entry only once the extraction has succeeded.
EntryExtractMarkOnSuccess ==
    /\ cur.type # "none"
    /\ nOps < MaxOps
    /\ nOps' = nOps + 1
    /\ opStream' = "none"
    /\ \E path \in DestPaths, options \in OptionChoices :
        LET begin == _beginExtract(cur)
            out == _extract(cur, path, options, fs, afters, lsupported)
        IN  IF begin # "none"
            THEN opResult' = begin /\ attrCalls' = <<>>
                 /\ opKind' = "extract"
                 /\ UNCHANGED <<cur, fs, afters>>
            ELSE /\ opResult' = out.error
                 /\ opKind' = IF pathResolve(path) \in AftersKeys(afters)
                              THEN "reextract" ELSE "extract"
                 /\ attrCalls' = out.calls
                 /\ cur' = [cur EXCEPT !.extracted = (out.error = "none"),
                                       !.thunkCalls = @ + out.thunkCalls]
                 /\ fs' = out.fs
                 /\ afters' = out.afters
    /\ UNCHANGED <<configVars, reading, pc, idx, stack, ctx, ret, failure,
                   flushed, monitorVars, readErr, hdiVars,
                   streamVars>>

\* Entry.extract(path, options), awaited: _beginExtract, then _extract.
EntryExtract ==
    /\ cur.type # "none"
    /\ nOps < MaxOps
    /\ nOps' = nOps + 1
    /\ opStream' = "none"
    /\ \E path \in DestPaths, options \in OptionChoices :
        LET begin == _beginExtract(cur)
            out == _extract(cur, path, options, fs, afters, lsupported)
        IN  IF begin # "none"
            THEN opResult' = begin /\ attrCalls' = <<>>
                 /\ opKind' = "extract"
                 /\ UNCHANGED <<cur, fs, afters>>
            ELSE /\ opResult' = out.error
                 /\ opKind' = IF pathResolve(path) \in AftersKeys(afters)
                              THEN "reextract" ELSE "extract"
                 /\ attrCalls' = out.calls
                 /\ cur' = [cur EXCEPT !.extracted = TRUE,
                                       !.thunkCalls = @ + out.thunkCalls]
                 /\ fs' = out.fs
                 /\ afters' = out.afters
    /\ UNCHANGED <<configVars, reading, pc, idx, stack, ctx, ret, failure,
                   flushed, monitorVars, readErr, hdiVars,
                   streamVars>>

\* A caller that reads the archive once.
FirstRead == pc = "idle" /\ ReadCall

Next ==
    \/ FirstRead
    \/ CallbackReturn
    \/ CallbackThrow
    \/ AfterReadSetAttributesTrigger
    \/ ReadFinally
    \/ TestNext
    \/ TestResume
    \/ WalkStep
    \/ EachResume
    \/ DirBegin
    \/ DirSubNext
    \/ HdiAttach
    \/ HdiDeviceNext
    \/ HdiEject
    \/ TarNext
    \/ TarResume
    \/ ZipOpen
    \/ ZipNext
    \/ ZipResume

Spec == Init /\ [][Next]_vars

\* ----------------------------------------------- reads with consumption
\* An archive read any number of times, also while a read is under way,
\* by callbacks that stream and extract the entries they are given.
ExtractAdapters == {"tar"}

InitExtract == Init /\ adapter \in ExtractAdapters

\* Callbacks that consume the entry they are given while they run, every
\* call awaited.
CallbackStream == pc = "callback" /\ EntryStream

CallbackStreamPull == pc = "callback" /\ EntryStreamPull

CallbackExtract == pc = "callback" /\ EntryExtract

NextExtract ==
    \/ ReadCall
    \/ CallbackStream
    \/ CallbackStreamPull
    \/ CallbackExtract
    \/ CallbackReturn
    \/ CallbackThrow
    \/ AfterReadSetAttributesTrigger
    \/ ReadFinally
    \/ TarNext
    \/ TarResume

SpecExtract == InitExtract /\ [][NextExtract]_vars

\* ------------------------------------- the deferred-attributes map, called
\* The two public methods of the map called by the archive's user at any
\* moment, before, during and after reads of the test archive.
InitAfters == Init /\ adapter = "test"

\* The entry the caller hands to afterReadSetAttributes.
CallerEntry == testEntries[2]

CallAfterReadSetAttributes ==
    /\ \E path \in DestPaths :
         LET out == afterReadSetAttributesCall(afters, path, CallerEntry,
                                               DefaultOptions)
         IN  /\ afters' = out.afters
             /\ opResult' = out.error
    /\ opKind' = "afterReadSetAttributes"
    /\ UNCHANGED <<configVars, reading, pc, idx, stack, ctx, cur, ret,
                   failure, fs, flushed, monitorVars, readErr, nOps,
                   attrCalls, opStream, hdiVars, streamVars>>

CallAfterReadSetAttributesRemove ==
    /\ \E path \in DestPaths :
         LET out == afterReadSetAttributesRemoveCall(afters, path)
         IN  /\ afters' = out.afters
             /\ opResult' = out.error
    /\ opKind' = "afterReadSetAttributesRemove"
    /\ UNCHANGED <<configVars, reading, pc, idx, stack, ctx, cur, ret,
                   failure, fs, flushed, monitorVars, readErr, nOps,
                   attrCalls, opStream, hdiVars, streamVars>>

NextAfters ==
    \/ ReadCall
    \/ CallAfterReadSetAttributes
    \/ CallAfterReadSetAttributesRemove
    \/ CallbackReturn
    \/ CallbackThrow
    \/ AfterReadSetAttributesTrigger
    \/ ReadFinally
    \/ TestNext
    \/ TestResume

SpecAfters == InitAfters /\ [][NextAfters]_vars

\* ------------------------------------------ reads that fail with records
\* One read of a zip archive or of a disk image in which a callback
\* registers a deferred-attributes record, the first of the read.
FailAdapters == {"zip", "hdi"}

InitFail == Init /\ adapter \in FailAdapters

CallbackAfterReadSetAttributes ==
    pc = "callback" /\ afters.recs = <<>> /\ CallAfterReadSetAttributes

NextFail ==
    \/ FirstRead
    \/ CallbackAfterReadSetAttributes
    \/ CallbackReturn
    \/ CallbackThrow
    \/ AfterReadSetAttributesTrigger
    \/ ReadFinally
    \/ WalkStep
    \/ EachResume
    \/ HdiAttach
    \/ HdiDeviceNext
    \/ HdiEject
    \/ ZipOpen
    \/ ZipNext
    \/ ZipResume

SpecFail == InitFail /\ [][NextFail]_vars

\* --------------------------------------------------------- fsWalk alone
\* The Directory adapter reading once, its walk given the option to ignore
\* unreadable directories (dir.ts 18-20) or called without it
\* (archives/dir.ts 267).  It reads the whole tree, or a list of no or one
\* subpath.
InitWalk ==
    /\ adapter = "dir"
    /\ lsupported = TRUE
    /\ attrOptions = DefaultOptions
    /\ createPath = <<>>
    /\ created = "none"
    /\ createStat = "none"
    /\ createFn = "none"
    /\ fnArg = <<>>
    /\ fnResult = <<>>
    /\ walkOpts \in BOOLEAN
    /\ subpaths \in {NoSubpaths}
                     \cup {[set |-> TRUE, list |-> l] :
                               l \in SeqsUpTo({<<n>> : n \in Names}, 1)}
    /\ reading = FALSE
    /\ afters = NoAfters
    /\ pc = "idle"
    /\ idx = 0
    /\ stack = <<>>
    /\ ctx = NoCtx
    /\ cur = NoEntry
    /\ ret = "ok"
    /\ failure = "none"
    /\ fs = EmptyFs
    /\ flushed = <<>>
    /\ stopped = FALSE
    /\ skipped = {}
    /\ lastPath = <<>>
    /\ calls = 0
    /\ allFalse = TRUE
    /\ readErr = "none"
    /\ nOps = 0
    /\ opResult = "none"
    /\ attrCalls = <<>>
    /\ opKind = "none"
    /\ opStream = "none"
    /\ devices = <<>>
    /\ mounted = FALSE
    /\ ejects = 0
    /\ input = "none"
    /\ body = "none"
    /\ record = NoRecord

NextWalk ==
    \/ FirstRead
    \/ CallbackReturn
    \/ CallbackThrow
    \/ AfterReadSetAttributesTrigger
    \/ ReadFinally
    \/ WalkStep
    \/ EachResume
    \/ DirBegin
    \/ DirSubNext

SpecWalk == InitWalk /\ [][NextWalk]_vars

\* ------------------------------------------------- pathNormalize alone
\* The strings given to pathNormalize: every string of up to MaxPathLen
\* characters that are a letter, a slash or a backslash.
PathStrings == SeqsUpTo({"a", "/", "\\"}, MaxPathLen)

InitNormalize ==
    /\ adapter = "test"
    /\ subpaths = NoSubpaths
    /\ lsupported = TRUE
    /\ attrOptions = DefaultOptions
    /\ createPath = <<>>
    /\ created = "none"
    /\ createStat = "none"
    /\ createFn = "none"
    /\ fnArg \in PathStrings
    /\ fnResult = <<>>
    /\ walkOpts = TRUE
    /\ reading = FALSE
    /\ afters = NoAfters
    /\ pc = "idle"
    /\ idx = 0
    /\ stack = <<>>
    /\ ctx = NoCtx
    /\ cur = NoEntry
    /\ ret = "ok"
    /\ failure = "none"
    /\ fs = EmptyFs
    /\ flushed = <<>>
    /\ stopped = FALSE
    /\ skipped = {}
    /\ lastPath = <<>>
    /\ calls = 0
    /\ allFalse = TRUE
    /\ readErr = "none"
    /\ nOps = 0
    /\ opResult = "none"
    /\ attrCalls = <<>>
    /\ opKind = "none"
    /\ opStream = "none"
    /\ devices = <<>>
    /\ mounted = FALSE
    /\ ejects = 0
    /\ input = "none"
    /\ body = "none"
    /\ record = NoRecord

\* pathNormalize(fnArg) is called.
Normalize ==
    /\ fnResult = <<>>
    /\ fnResult' = <<pathNormalize(fnArg)>>
    /\ UNCHANGED <<adapter, subpaths, lsupported, attrOptions, walkOpts, createPath,
                   created, createStat, createFn, fnArg, reading, afters, pc,
                   idx, stack, ctx, cur, ret, failure, fs, flushed,
                   monitorVars, readErr, opVars, hdiVars, streamVars>>

\* pathNormalize is called on what it returned.
NormalizeAgain ==
    /\ Len(fnResult) = 1
    /\ fnResult' = Append(fnResult, pathNormalize(fnResult[1]))
    /\ UNCHANGED <<adapter, subpaths, lsupported, attrOptions, walkOpts, createPath,
                   created, createStat, createFn, fnArg, reading, afters, pc,
                   idx, stack, ctx, cur, ret, failure, fs, flushed,
                   monitorVars, readErr, opVars, hdiVars, streamVars>>

NextNormalize ==
    \/ Normalize
    \/ NormalizeAgain

SpecNormalize == InitNormalize /\ [][NextNormalize]_vars

\* ------------------------------------------------ modeToPathType alone
\* Permission bits of the modes given to modeToPathType: none, 0644, 0755
\* and all twelve bits.
ModePerms == {0, 420, 493, 4095}

\* The modes given to modeToPathType: every value of the file-type field
\* (bits 12 to 15) with each of the permission values.
Modes == {n * 4096 + p : n \in 0..15, p \in ModePerms}

InitMode ==
    /\ adapter = "test"
    /\ subpaths = NoSubpaths
    /\ lsupported = TRUE
    /\ attrOptions = DefaultOptions
    /\ createPath = <<>>
    /\ created = "none"
    /\ createStat = "none"
    /\ createFn = "none"
    /\ fnArg \in Modes
    /\ fnResult = <<>>
    /\ walkOpts = TRUE
    /\ reading = FALSE
    /\ afters = NoAfters
    /\ pc = "idle"
    /\ idx = 0
    /\ stack = <<>>
    /\ ctx = NoCtx
    /\ cur = NoEntry
    /\ ret = "ok"
    /\ failure = "none"
    /\ fs = EmptyFs
    /\ flushed = <<>>
    /\ stopped = FALSE
    /\ skipped = {}
    /\ lastPath = <<>>
    /\ calls = 0
    /\ allFalse = TRUE
    /\ readErr = "none"
    /\ nOps = 0
    /\ opResult = "none"
    /\ attrCalls = <<>>
    /\ opKind = "none"
    /\ opStream = "none"
    /\ devices = <<>>
    /\ mounted = FALSE
    /\ ejects = 0
    /\ input = "none"
    /\ body = "none"
    /\ record = NoRecord

\* modeToPathType(fnArg) is called.
ModeToPathType ==
    /\ fnResult = <<>>
    /\ fnResult' = <<modeToPathType(fnArg)>>
    /\ UNCHANGED <<adapter, subpaths, lsupported, attrOptions, walkOpts, createPath,
                   created, createStat, createFn, fnArg, reading, afters, pc,
                   idx, stack, ctx, cur, ret, failure, fs, flushed,
                   monitorVars, readErr, opVars, hdiVars, streamVars>>

SpecMode == InitMode /\ [][ModeToPathType]_vars

\* --------------------------------------------- volume name, volume path
\* Archive.hasNamedVolumes: the static HAS_NAMED_VOLUMES of the adapter.
hasNamedVolumes(a) == a = "hdi"

\* The path of an entry as a string of characters: the walked paths of
\* the model are sequences of one-character segments, joined by '/'; the
\* ZIP paths are strings already.
RECURSIVE pathJoin(_)
pathJoin(segments) ==
    IF segments = <<>> THEN <<>>
    ELSE IF Len(segments) = 1 THEN <<segments[1]>>
    ELSE <<segments[1], "/">> \o pathJoin(Tail(segments))

EntryPath(a, entry) == IF a = "zip" THEN entry.path ELSE pathJoin(entry.path)

\* String.prototype.indexOf: the 0-based place of the first c, or -1.
indexOf(str, c) ==
    IF \E i \in 1..Len(str) : str[i] = c
    THEN (CHOOSE i \in 1..Len(str) :
             str[i] = c /\ \A j \in 1..(i - 1) : str[j] # c) - 1
    ELSE -1

\* String.prototype.substr(start, length), start >= 0: a negative length
\* gives the empty string.
substr(str, start, length) ==
    IF length <= 0 THEN <<>>
    ELSE SubSeq(str, start + 1, Min(start + length, Len(str)))

\* null, where a string is expected.
NullString == <<"null">>

\* Entry.volumeName
volumeName(a, path) ==
    IF hasNamedVolumes(a) THEN substr(path, 0, indexOf(path, "/"))
    ELSE NullString

\* A volume path that keeps the separator.
volumePathWithSlash(a, path) ==
    IF hasNamedVolumes(a)
    THEN substr(path, indexOf(path, "/"), Len(path))
    ELSE path

\* Entry.volumePath
volumePath(a, path) ==
    IF hasNamedVolumes(a)
    THEN substr(path, indexOf(path, "/") + 1, Len(path))
    ELSE path

\* -------------------------------------------- reads by streaming callbacks
\* One read of an archive of any adapter by callbacks that stream the
\* entries they are given.
NextStream ==
    \/ Next
    \/ CallbackStream
    \/ CallbackStreamPull

SpecStream == Init /\ [][NextStream]_vars

\* ------------------------------------------------------- one entry alone
\* An entry built by its constructor and used by a caller in every order:
\* consumed before it is triggered, while its callback runs, and after.
EntryThunks(type) ==
    IF type = FILE THEN {"data"}
    ELSE IF type = RESOURCE_FORK THEN {"rsrc"}
    ELSE IF type = SYMLINK THEN {"symlink"}
    ELSE {}

\* The entries handed to the constructor: every type, with the reader
\* thunk of its type or with none.
EntryChoices ==
    {NewEntry(type, <<"e">>, 493, NoTime, 5, thunks) :
        type \in PathType, thunks \in {{}, {"data"}, {"rsrc"}, {"symlink"}}}

InitEntry ==
    /\ adapter = "test"
    /\ subpaths = NoSubpaths
    /\ lsupported \in BOOLEAN
    /\ attrOptions = DefaultOptions
    /\ createPath = <<>>
    /\ created = "none"
    /\ createStat = "none"
    /\ createFn = "none"
    /\ fnArg = <<>>
    /\ fnResult = <<>>
    /\ walkOpts = TRUE
    /\ reading \in BOOLEAN
    /\ afters = IF reading THEN EmptyAfters ELSE NoAfters
    /\ pc = "fresh"
    /\ idx = 0
    /\ stack = <<>>
    /\ ctx = NoCtx
    /\ cur \in {e \in EntryChoices : e.thunks \in {{}, EntryThunks(e.type)}}
    /\ ret = "ok"
    /\ failure = "none"
    /\ fs \in {f \in [FsPaths -> FsKinds] : FsWellFormed(f)}
    /\ flushed = <<>>
    /\ stopped = FALSE
    /\ skipped = {}
    /\ lastPath = <<>>
    /\ calls = 0
    /\ allFalse = TRUE
    /\ readErr = "none"
    /\ nOps = 0
    /\ opResult = "none"
    /\ attrCalls = <<>>
    /\ opKind = "none"
    /\ opStream = "none"
    /\ devices = <<>>
    /\ mounted = FALSE
    /\ ejects = 0
    /\ input = "none"
    /\ body = "none"
    /\ record = NoRecord

\* Entry.trigger(itter) up to the call of itter: an entry is triggered
\* once.
EntryTrigger ==
    /\ pc \in {"fresh", "callback", "returned", "threw"}
    /\ IF cur.triggered
       THEN opResult' = "AlreadyTriggered" /\ UNCHANGED <<cur, pc>>
       ELSE cur' = Trigger(cur) /\ pc' = "callback" /\ UNCHANGED opResult
    /\ UNCHANGED <<configVars, reading, afters, idx, stack, ctx, ret, failure,
                   fs, flushed, monitorVars, readErr, nOps, opKind, attrCalls, opStream,
                   hdiVars,
                   streamVars>>

\* The callback settles, resolving or rejecting, and trigger's finally
\* block runs.
EntrySettle ==
    /\ pc = "callback"
    /\ cur' = TriggerFinally(cur)
    /\ pc' \in {"returned", "threw"}
    /\ UNCHANGED <<configVars, reading, afters, idx, stack, ctx, ret, failure,
                   fs, flushed, monitorVars, readErr, opVars, hdiVars,
                   streamVars>>

NextEntry ==
    \/ EntryTrigger
    \/ EntrySettle
    \/ EntryStream
    \/ EntryStreamPull
    \/ EntryExtract

SpecEntry == InitEntry /\ [][NextEntry]_vars

\* ------------------------------------------- createArchiveByFileExtension
\* Strings are sequences of characters here.
UpperCase == <<"A", "B", "C", "D", "E", "F", "G", "H", "I", "J", "K", "L", "M",
               "N", "O", "P", "Q", "R", "S", "T", "U", "V", "W", "X", "Y", "Z">>

LowerCase == <<"a", "b", "c", "d", "e", "f", "g", "h", "i", "j", "k", "l", "m",
               "n", "o", "p", "q", "r", "s", "t", "u", "v", "w", "x", "y", "z">>

\* A string as it is.
toLowerCaseNone(str) == str

\* String.prototype.toLowerCase on the characters of the model.
toLowerCase(str) ==
    [i \in 1..Len(str) |->
        IF \E k \in 1..Len(UpperCase) : UpperCase[k] = str[i]
        THEN LowerCase[CHOOSE k \in 1..Len(UpperCase) : UpperCase[k] = str[i]]
        ELSE str[i]]

toUpperCase(str) ==
    [i \in 1..Len(str) |->
        IF \E k \in 1..Len(LowerCase) : LowerCase[k] = str[i]
        THEN UpperCase[CHOOSE k \in 1..Len(LowerCase) : LowerCase[k] = str[i]]
        ELSE str[i]]

\* String.prototype.endsWith.
endsWith(str, ext) ==
    /\ Len(ext) <= Len(str)
    /\ SubSeq(str, Len(str) - Len(ext) + 1, Len(str)) = ext

\* The adapters in the order of the archives list.
archives == <<"dir", "hdi", "tar", "tarbz2", "targz", "zip">>

\* The static FILE_EXTENSIONS of each adapter; <<>> stands for null.
FILE_EXTENSIONS(Archive) ==
    IF Archive = "hdi" THEN <<<<".", "d", "m", "g">>, <<".", "i", "s", "o">>, <<".", "c", "d", "r">>>>
    ELSE IF Archive = "tar" THEN <<<<".", "t", "a", "r">>>>
    ELSE IF Archive = "tarbz2" THEN <<<<".", "t", "a", "r", ".", "b", "z", "2">>, <<".", "t", "b", "z", "2">>>>
    ELSE IF Archive = "targz" THEN <<<<".", "t", "a", "r", ".", "g", "z">>, <<".", "t", "g", "z">>>>
    ELSE IF Archive = "zip" THEN <<<<".", "z", "i", "p">>>>
    ELSE <<>>

\* The pairs of one adapter, its extensions lower-cased.
ArchiveExts(Archive) ==
    [i \in 1..Len(FILE_EXTENSIONS(Archive)) |->
        [Archive |-> Archive, ext |-> toLowerCase(FILE_EXTENSIONS(Archive)[i])]]

RECURSIVE AllExts(_)
AllExts(i) ==
    IF i > Len(archives) THEN <<>>
    ELSE ArchiveExts(archives[i]) \o AllExts(i + 1)

\* all.sort((a, b) => b.ext.length - a.ext.length): longest first, equal
\* lengths in the order they had.
RECURSIVE SortExtsFrom(_, _)
SortExtsFrom(all, n) ==
    IF n < 0 THEN <<>>
    ELSE SelectSeq(all, LAMBDA e : Len(e.ext) = n) \o SortExtsFrom(all, n - 1)

MaxExtLength(all) ==
    IF all = <<>> THEN 0
    ELSE LET lens == {Len(all[i].ext) : i \in 1..Len(all)}
         IN  CHOOSE m \in lens : \A l \in lens : l <= m

archivesExtensions == SortExtsFrom(AllExts(1), MaxExtLength(AllExts(1)))

\* The first pair of the list whose extension ends the lower-cased path.
createArchiveByFileExtension(path) ==
    LET pathLower == toLowerCase(path)
        list == archivesExtensions
        hits == {i \in 1..Len(list) : endsWith(pathLower, list[i].ext)}
    IN  IF hits = {} THEN "null"
        ELSE list[CHOOSE i \in hits : \A j \in hits : i <= j].Archive

\* The paths given to createArchiveByFileExtension: a stem, then an
\* extension of the table in lower, upper or mixed case, or something else.
CreateStems == {<<>>, <<"x">>, <<"x", ".", "t", "a", "r">>}

CreateTails ==
    LET exts == {<<".", "d", "m", "g">>, <<".", "i", "s", "o">>, <<".", "c", "d", "r">>, <<".", "t", "a", "r">>, <<".", "t", "a", "r", ".", "b", "z", "2">>, <<".", "t", "b", "z", "2">>, <<".", "t", "a", "r", ".", "g", "z">>, <<".", "t", "g", "z">>, <<".", "z", "i", "p">>}
    IN  exts \cup {toUpperCase(e) : e \in exts}
        \cup {<<>>, <<".", "z", "I", "p">>, <<".", "u", "n", "k", "n", "o", "w", "n">>, <<".", "g", "z">>, <<".", "b", "z", "2">>, <<"t", "a", "r">>, <<".", "t", "a", "r", ".", "g", "z", ".", "b", "a", "k">>, <<".", "z", "i", "p", "x">>}

CreatePaths == {stem \o tail : stem \in CreateStems, tail \in CreateTails}

\* What stat finds at the path: a directory, something else, or nothing
\* (stat rejects).
CreateStats == {"dir", "file", "none"}

InitCreate ==
    /\ adapter = "test"
    /\ subpaths = NoSubpaths
    /\ lsupported = TRUE
    /\ attrOptions = DefaultOptions
    /\ createPath \in CreatePaths
    /\ created = "none"
    /\ createStat \in CreateStats
    /\ createFn = "none"
    /\ fnArg = <<>>
    /\ fnResult = <<>>
    /\ walkOpts = TRUE
    /\ reading = FALSE
    /\ afters = NoAfters
    /\ pc = "idle"
    /\ idx = 0
    /\ stack = <<>>
    /\ ctx = NoCtx
    /\ cur = NoEntry
    /\ ret = "ok"
    /\ failure = "none"
    /\ fs = EmptyFs
    /\ flushed = <<>>
    /\ stopped = FALSE
    /\ skipped = {}
    /\ lastPath = <<>>
    /\ calls = 0
    /\ allFalse = TRUE
    /\ readErr = "none"
    /\ nOps = 0
    /\ opResult = "none"
    /\ attrCalls = <<>>
    /\ opKind = "none"
    /\ opStream = "none"
    /\ devices = <<>>
    /\ mounted = FALSE
    /\ ejects = 0
    /\ input = "none"
    /\ body = "none"
    /\ record = NoRecord

\* createArchiveByFileExtension(createPath) is called.
CreateArchive ==
    /\ created = "none"
    /\ created' = createArchiveByFileExtension(createPath)
    /\ UNCHANGED <<adapter, subpaths, lsupported, attrOptions, walkOpts, createPath,
                   createStat, createFn, fnArg, fnResult, reading, afters,
                   pc, idx, stack, ctx, cur, ret, failure, fs, flushed, monitorVars, readErr, opVars, hdiVars,
                   streamVars>>

NextCreate == CreateArchive

createArchiveByFileExtensionOrThrow(path) ==
    LET a == createArchiveByFileExtension(path)
    IN  IF a = "null" THEN "Unsupported" ELSE a

\* createArchiveByFileStat with the extension looked at first.
createArchiveByFileStatExtensionFirst(path, st) ==
    IF st = "none" THEN "null"
    ELSE IF createArchiveByFileExtension(path) # "null"
    THEN createArchiveByFileExtension(path)
    ELSE IF st = "dir" THEN "dir" ELSE "null"

\* st: the answer of stat(path), "none" when it rejects.
createArchiveByFileStat(path, st) ==
    IF st = "none" THEN "null"
    ELSE IF st = "dir" THEN "dir"
    ELSE createArchiveByFileExtension(path)

createArchiveByFileStatOrThrow(path, st) ==
    IF st = "none" THEN "ENOENT"
    ELSE IF st = "dir" THEN "dir"
    ELSE createArchiveByFileExtensionOrThrow(path)

CreateByFileStat ==
    /\ createFn = "none"
    /\ createFn' = "createArchiveByFileStat"
    /\ created' = createArchiveByFileStat(createPath, createStat)
    /\ UNCHANGED <<adapter, subpaths, lsupported, attrOptions, walkOpts, createPath,
                   createStat, fnArg, fnResult, reading, afters, pc, idx, stack, ctx, cur, ret,
                   failure, fs, flushed, monitorVars, readErr, opVars,
                   hdiVars, streamVars>>

CreateByFileStatOrThrow ==
    /\ createFn = "none"
    /\ createFn' = "createArchiveByFileStatOrThrow"
    /\ created' = createArchiveByFileStatOrThrow(createPath, createStat)
    /\ UNCHANGED <<adapter, subpaths, lsupported, attrOptions, walkOpts, createPath,
                   createStat, fnArg, fnResult, reading, afters, pc, idx, stack, ctx, cur, ret,
                   failure, fs, flushed, monitorVars, readErr, opVars,
                   hdiVars, streamVars>>

NextCreateStat ==
    \/ CreateByFileStat
    \/ CreateByFileStatOrThrow

SpecCreateStat == InitCreate /\ [][NextCreateStat]_vars

SpecCreate == InitCreate /\ [][NextCreate]_vars

\* ------------------------------------------------- setAttributes alone
\* Mode and times of the entries handed to setAttributes: absent or not,
\* the mode with and without file-type bits above the permission bits.
ModeChoices == {NoMode, 0, 420, 33261}

AtimeChoices == {NoTime, 7}

MtimeChoices == {NoTime, 5}

AttributeEntries ==
    {NewEntry(type, <<"e">>, mode, atime, mtime, EntryThunks(type)) :
        type \in PathType, mode \in ModeChoices, atime \in AtimeChoices,
        mtime \in MtimeChoices}

InitAttributes ==
    /\ adapter = "test"
    /\ subpaths = NoSubpaths
    /\ lsupported \in BOOLEAN
    /\ attrOptions \in AllOptions
    /\ createPath = <<>>
    /\ created = "none"
    /\ createStat = "none"
    /\ createFn = "none"
    /\ fnArg = <<>>
    /\ fnResult = <<>>
    /\ walkOpts = TRUE
    /\ reading = FALSE
    /\ afters = NoAfters
    /\ pc = "fresh"
    /\ idx = 0
    /\ stack = <<>>
    /\ ctx = NoCtx
    /\ cur \in AttributeEntries
    /\ ret = "ok"
    /\ failure = "none"
    /\ fs = EmptyFs
    /\ flushed = <<>>
    /\ stopped = FALSE
    /\ skipped = {}
    /\ lastPath = <<>>
    /\ calls = 0
    /\ allFalse = TRUE
    /\ readErr = "none"
    /\ nOps = 0
    /\ opResult = "none"
    /\ attrCalls = <<>>
    /\ opKind = "none"
    /\ opStream = "none"
    /\ devices = <<>>
    /\ mounted = FALSE
    /\ ejects = 0
    /\ input = "none"
    /\ body = "none"
    /\ record = NoRecord

\* Entry.setAttributes(path, pathFull, options) called on the entry.
EntrySetAttributes ==
    /\ opKind = "none"
    /\ opKind' = "setAttributes"
    /\ attrCalls' = setAttributes(cur, attrOptions, lsupported)
    /\ UNCHANGED <<configVars, reading, afters, pc, idx, stack, ctx, cur, ret,
                   failure, fs, flushed, monitorVars, readErr, nOps, opResult,
                   opStream, hdiVars, streamVars>>

NextAttributes == EntrySetAttributes

SpecAttributes == InitAttributes /\ [][NextAttributes]_vars

\* ============================================================ properties
\* A step that is a call of stream, read, readBuffer or extract.
ConsumeCall == nOps' # nOps

\* A step that is a call of extract.
ExtractCall == nOps' # nOps /\ opKind' \in {"extract", "reextract"}

\* What a refused call leaves alone: the entry and its thunks, the
\* destination and the deferred records.
Refused == cur' = cur /\ fs' = fs /\ afters' = afters

\* C1 as written: whenever stream, read, readBuffer or extract has been
\* let in once on an entry, every later call of any of them on that entry
\* fails with 'can only be extracted once' and runs no reader thunk.
C1_AnyLaterCall ==
    [][ConsumeCall /\ cur.extracted
        => opResult' = "ExtractedOnce" /\ Refused]_vars

\* C1 amended: a later call made while the callback still runs fails with
\* 'can only be extracted once', a later call made after the callback has
\* settled fails with 'not active', and neither runs a reader thunk.
C1_OnceWhileActive ==
    [][ConsumeCall /\ cur.extracted
        => /\ opResult' = IF cur.triggering THEN "ExtractedOnce"
                          ELSE "NotActive"
           /\ Refused]_vars

\* A second call was refused inside the callback of a consumed entry that
\* has a reader thunk.
C1_Witness ==
    /\ pc = "callback"
    /\ cur.extracted
    /\ cur.thunks # {}
    /\ cur.thunkCalls = 1
    /\ nOps = 2
    /\ opResult = "ExtractedOnce"

\* C2: the entry is active exactly while its callback runs; a call of
\* stream, read, readBuffer or extract made before trigger or after the
\* callback has returned or thrown fails with 'not active' and changes
\* nothing, whether or not the entry was consumed during the callback.
C2_ActiveOnlyInCallback ==
    /\ [](cur.triggering <=> pc = "callback")
    /\ [][ConsumeCall /\ pc # "callback"
          => opResult' = "NotActive" /\ Refused]_vars

\* A call was refused after the callback of a consumed entry threw.
C2_Witness ==
    /\ pc = "threw"
    /\ cur.extracted
    /\ nOps = 2
    /\ opResult = "NotActive"

\* C3: while a read() has not settled, no step starts the read anew, and a
\* call of read() is answered with 'Archive already being read' and
\* leaves the read under way as it is.
C3_AlreadyBeingRead ==
    [][reading
        => /\ pc' = "begin" => pc = "begin"
           /\ readErr' # readErr
                => /\ readErr' = "AlreadyBeingRead"
                   /\ UNCHANGED <<reading, afters, pc, cur, fs, flushed,
                                  failure>>]_vars

\* A read() was refused while an entry's callback was running.
C3_Witness ==
    /\ reading
    /\ pc = "callback"
    /\ readErr = "AlreadyBeingRead"

\* C4: once read() has settled, however it ended, the flag is false and
\* the map is absent; the next read() is let in and starts with an empty
\* map.
C4_ClearedOnSettle ==
    /\ [](pc = "settled" => ~reading /\ afters = NoAfters)
    /\ [][pc = "settled" /\ (pc' # pc \/ readErr' # readErr)
          => /\ pc' = "begin"
             /\ reading'
             /\ afters' = EmptyAfters
             /\ readErr' = "none"]_vars

\* A read() settled by a failing flush, with records that were deferred.
C4_Witness ==
    /\ pc = "settled"
    /\ failure = "flush"
    /\ readErr = "AlreadyBeingRead"
    /\ ~reading

\* C5: a callback that answers false every time is called at most once
\* in a read(), whichever the adapter.
C5_AlwaysFalseCalledOnce == allFalse => calls <= 1

\* C6: when the directory adapter reads a list of subpaths, no entry is
\* delivered once a callback has answered false.
C6_StopEndsSubpaths ==
    adapter = "dir" /\ subpaths.set /\ stopped => pc # "callback"

\* C7: when the disk-image adapter reads its volumes, no entry is delivered
\* once a callback has answered false, so none of a later volume.
C7_StopEndsVolumes ==
    adapter = "hdi" /\ stopped => pc # "callback"

C9_SkipDescent ==
    /\ [](adapter = "dir" /\ ~subpaths.set /\ pc = "callback"
          => \A p \in skipped : ~StrictDescendant(cur.path, p))
    /\ [][adapter = "dir" /\ ~subpaths.set /\ pc = "returned"
          /\ ret = "null" /\ pc' # pc
          => pc' = "walk" /\ stack' = stack /\ failure' = "none"]_vars

\* After null for a directory, a path inside a sibling directory is
\* delivered.
C9_Witness ==
    /\ adapter = "dir"
    /\ ~subpaths.set
    /\ pc = "callback"
    /\ Len(cur.path) = 2
    /\ \E p \in skipped : Len(p) = 1 /\ ~IsPrefix(p, cur.path)

\* C10: when the directory adapter reads a list of subpaths and a callback
\* answers null for a subpath that is a directory, no strict descendant of
\* that subpath is delivered.
C10_SkipTopLevelSubpath ==
    adapter = "dir" /\ subpaths.set /\ pc = "callback"
        => \A p \in skipped : Len(p) = 1 => ~StrictDescendant(cur.path, p)

\* C11: in the TAR and ZIP adapters a callback's null is taken as any
\* other answer that is not false: the read goes on to the next record
\* with its input open and nothing failed (or, in TAR, fails reading the
\* rest of the body, as after any answer), and no stop is noted.
C11_NullAsNormal ==
    [][/\ adapter \in TarAdapters \cup {"zip"}
       /\ pc = "returned"
       /\ ret \in {"null", "ok"}
       /\ pc' # pc
       => /\ stopped' = stopped
          /\ \/ /\ pc' = "loop"
                /\ idx' = idx + 1
                /\ input' = input
                /\ failure' = "none"
             \/ /\ adapter \in TarAdapters
                /\ failure' = "discovery"
                /\ input' = input]_vars

\* After null for a directory record of a TAR or ZIP archive, the next
\* record is delivered.
C11_Witness ==
    /\ adapter \in TarAdapters \cup {"zip"}
    /\ pc = "callback"
    /\ skipped # {}
    /\ calls = 2
    /\ ~stopped

\* C12: the flush sets attributes in non-increasing order of the length of
\* the resolved path, so on a descendant before any of its ancestors.
C12_LongestFirst ==
    \A i, j \in 1..Len(flushed) :
        i < j => /\ StringLength(flushed[i].resolved)
                      >= StringLength(flushed[j].resolved)
                 /\ ~StrictDescendant(flushed[j].resolved,
                                      flushed[i].resolved)

\* A directory and then a directory inside it were registered, and the
\* flush took the inner one first.
C12_Witness ==
    /\ pc = "finally"
    /\ Len(afters.recs) = 2
    /\ afters.recs[1].resolved = <<"x">>
    /\ afters.recs[2].resolved = <<"x", "y">>
    /\ Len(flushed) = 2
    /\ flushed[1].resolved = <<"x", "y">>
    /\ flushed[2].resolved = <<"x">>

\* C13: extracting a Directory entry makes no attribute call and leaves a
\* record with the entry's times at the directory; nothing is flushed
\* before discovery has ended, and the destination changes only inside
\* callbacks, so the flush comes after every write of the read; the flush
\* then sets on each record's path the times its entry declares.
C13_DirectoryAttributesLast ==
    /\ [][ExtractCall /\ cur.type = DIRECTORY
          => /\ attrCalls' = <<>>
             /\ opResult' = "none"
                  => \E i \in 1..Len(afters'.recs) :
                        /\ afters'.recs[i].entry.type = DIRECTORY
                        /\ afters'.recs[i].entry.mtime = cur.mtime
                        /\ fs'[afters'.recs[i].resolved] = "dir"]_vars
    /\ [](pc \notin {"finally", "settled"} => flushed = <<>>)
    /\ [][fs' # fs => pc = "callback" /\ pc' = "callback"]_vars
    /\ [][pc = "flush" /\ pc' # pc
          => \A i \in 1..Len(flushed') :
                LET rec == SortByLength(afters.recs)[i]
                IN  /\ flushed'[i].resolved = rec.resolved
                    /\ rec.entry.type = DIRECTORY
                    /\ ~rec.options.ignoreTimes
                         => \E k \in 1..Len(flushed'[i].calls) :
                               /\ flushed'[i].calls[k].call = "utimes"
                               /\ flushed'[i].calls[k].mtime
                                    = rec.entry.mtime]_vars

\* A directory was extracted, a file written inside it by a later callback,
\* and the read ended with the directory's times set by the flush.
C13_Witness ==
    /\ pc = "settled"
    /\ failure = "none"
    /\ fs[<<"x">>] = "dir"
    /\ fs[<<"x", "y">>] = "file"
    /\ \E i \in 1..Len(flushed) :
          /\ flushed[i].resolved = <<"x">>
          /\ \E k \in 1..Len(flushed[i].calls) :
                /\ flushed[i].calls[k].call = "utimes"
                /\ flushed[i].calls[k].mtime = TarMtime

\* What is no directory.
NonDirectory == {"file", "filer", "symlink"}

\* C14: the map holds at most one record per resolved path, the one of the
\* latest Directory entry extracted there, and none where an entry of
\* another type has been extracted since; so the flush sets no attributes
\* of a Directory entry on what a later entry put in its place.
C14_NoStaleRecord ==
    /\ [](\A i, j \in 1..Len(afters.recs) :
             afters.recs[i].resolved = afters.recs[j].resolved => i = j)
    /\ [](\A i \in 1..Len(afters.recs) :
             fs[afters.recs[i].resolved] \notin NonDirectory)
    /\ [](\A i \in 1..Len(flushed) :
             fs[flushed[i].resolved] \notin NonDirectory)
    /\ [][ExtractCall /\ cur.type = DIRECTORY /\ opResult' = "none"
          => \E i \in 1..Len(afters'.recs) :
                /\ afters'.recs[i].entry.path = cur.path
                /\ fs'[afters'.recs[i].resolved] = "dir"]_vars

\* A File or Symlink entry was extracted with replace where the record of
\* a directory was pending, and the flush of that read left its path alone.
C14_Witness ==
    /\ pc = "finally"
    /\ failure = "none"
    /\ opKind = "reextract"
    /\ opResult = "none"
    /\ fs[<<"x">>] \in {"file", "symlink"}
    /\ \A i \in 1..Len(flushed) : flushed[i].resolved # <<"x">>

\* An entry in its callback, not yet consumed, in a read: extract would be
\* let in.
Extractable == pc = "callback" /\ ~cur.extracted /\ afters.live

\* What extract(path, options) would do now.
Extracted(path, options) ==
    _extract(cur, path, options, fs, afters, lsupported)

\* f and g hold the same outside p and what lies below it.
SameOutside(f, g, p) == \A q \in FsPaths : ~IsPrefix(p, q) => f[q] = g[q]

\* C15: a Directory entry extracted onto a directory keeps it and all the
\* destination as it is, with replace or without; onto a file or symlink
\* it fails with the path-exists error, changing nothing, without replace,
\* and with replace leaves a directory there and the rest as it was; onto a
\* free path whose parents can be made it leaves a directory.
C15_ExtractDirectory ==
    Extractable /\ cur.type = DIRECTORY
    => \A path \in DestPaths, options \in AllOptions :
          LET p == pathResolve(path)
              stat == fsLstatExists(fs, p)
              out == Extracted(path, options)
          IN  /\ stat = "dir" => out.error = "none" /\ out.fs = fs
              /\ stat \in NonDirectory /\ ~options.replace
                   => out.error = "PathExists" /\ out.fs = fs
              /\ stat \in NonDirectory /\ options.replace
                   => /\ out.error = "none"
                      /\ out.fs[p] = "dir"
                      /\ SameOutside(out.fs, fs, p)
              /\ stat = "none" /\ CanEnsureDir(fs, p)
                   => /\ out.error = "none"
                      /\ out.fs[p] = "dir"
                      /\ \A q \in FsPaths : fs[q] # "none" => out.fs[q] = fs[q]

\* A Directory entry was refused at a destination that holds a file or a
\* symlink.
C15_Witness ==
    /\ cur.type = DIRECTORY
    /\ opKind = "extract"
    /\ opResult = "PathExists"
    /\ cur.extracted
    /\ fs[<<"x">>] \in NonDirectory /\ fs[<<"x", "y">>] = "none"

\* C16: a File or Symlink entry (with its reader) extracted where anything
\* exists fails with the path-exists error without replace, leaving the
\* destination as it is and running no reader; with replace the object and
\* all below it are gone and the new file or link is there.
C16_ExtractFileOrSymlink ==
    Extractable /\ cur.type \in {FILE, SYMLINK}
        /\ EntryThunks(cur.type) \subseteq cur.thunks
    => \A path \in DestPaths, options \in AllOptions :
          LET p == pathResolve(path)
              stat == fsLstatExists(fs, p)
              out == Extracted(path, options)
          IN  /\ stat # "none" /\ ~options.replace
                   => /\ out.error = "PathExists"
                      /\ out.fs = fs
                      /\ out.thunkCalls = 0
                      /\ out.calls = <<>>
              /\ stat # "none" /\ options.replace
                   => /\ out.error = "none"
                      /\ out.thunkCalls = 1
                      /\ out.fs[p] = IF cur.type = SYMLINK
                                        /\ ~options.symlinkAsFile
                                     THEN "symlink" ELSE "file"
                      /\ \A q \in FsPaths :
                            StrictDescendant(q, p) => out.fs[q] = "none"
                      /\ SameOutside(out.fs, fs, p)

\* A File or Symlink entry with a reader was refused where something
\* exists, its reader not run.
C16_Witness ==
    /\ cur.type \in {FILE, SYMLINK}
    /\ cur.thunks # {}
    /\ cur.extracted
    /\ opKind = "extract"
    /\ opResult = "PathExists"
    /\ cur.thunkCalls = 0
    /\ fs[<<"x">>] = "dir"
    /\ fs[<<"x", "y">>] = "file"

\* C17: a ResourceFork entry (with its reader) extracted with
\* resourceForkAsFile false fails with the no-resource-fork error and
\* writes nothing unless a regular file is at the destination, where the
\* fork is then written; with resourceForkAsFile true it is refused where
\* anything exists unless replace is set, and else leaves a file.
C17_ExtractResourceFork ==
    Extractable /\ cur.type = RESOURCE_FORK /\ "rsrc" \in cur.thunks
    => \A path \in DestPaths, options \in AllOptions :
          LET p == pathResolve(path)
              stat == fsLstatExists(fs, p)
              out == Extracted(path, options)
              asFile == _extract([cur EXCEPT !.type = FILE,
                                             !.thunks = {"data"}],
                                 path, options, fs, afters, lsupported)
          IN  /\ ~options.resourceForkAsFile /\ stat \notin {"file", "filer"}
                   => /\ out.error = "NoResourceFork"
                      /\ out.fs = fs
                      /\ out.thunkCalls = 0
              /\ ~options.resourceForkAsFile /\ stat \in {"file", "filer"}
                   => /\ out.error = "none"
                      /\ out.fs = [fs EXCEPT ![p] = "filer"]
                      /\ out.thunkCalls = 1
              /\ options.resourceForkAsFile
                   => /\ out.error = asFile.error
                      /\ out.fs = asFile.fs
                      /\ out.thunkCalls = asFile.thunkCalls
                      /\ stat # "none" /\ ~options.replace
                           => out.error = "PathExists" /\ out.fs = fs
                      /\ out.error = "none" => out.fs[p] = "file"

\* A ResourceFork entry was refused at a destination that holds a
\* directory.
C17_Witness ==
    /\ cur.type = RESOURCE_FORK
    /\ cur.extracted
    /\ opKind = "extract"
    /\ opResult = "NoResourceFork"
    /\ cur.thunkCalls = 0
    /\ fs[<<"x">>] = "dir"
    /\ fs[<<"x", "y">>] = "none"

\* The attribute calls of the kinds in K, in order.
CallsOf(callSeq, K) == SelectSeq(callSeq, LAMBDA c : c.call \in K)

\* C18: a setAttributes call on an entry that is no symlink, or on a
\* symlink where lchmod and lutimes exist, sets the times exactly when
\* ignoreTimes is false and atime or mtime is present, to atime (else
\* mtime) and mtime (else atime), in one call; it sets the mode exactly
\* when ignorePermissions is false and the mode is present, to the mode's
\* low 9 bits, in one call.
C18_SetAttributes ==
    opKind = "setAttributes" /\ (cur.type # SYMLINK \/ lsupported)
    => LET times == CallsOf(attrCalls, {"utimes", "lutimes"})
           modes == CallsOf(attrCalls, {"chmod", "lchmod"})
       IN  /\ Len(times) + Len(modes) = Len(attrCalls)
           /\ Len(times) =
                IF ~attrOptions.ignoreTimes
                   /\ (cur.atime # NoTime \/ cur.mtime # NoTime)
                THEN 1 ELSE 0
           /\ \A i \in 1..Len(times) :
                /\ times[i].atime = IF cur.atime # NoTime THEN cur.atime
                                    ELSE cur.mtime
                /\ times[i].mtime = IF cur.mtime # NoTime THEN cur.mtime
                                    ELSE cur.atime
           /\ Len(modes) =
                IF ~attrOptions.ignorePermissions /\ cur.mode # NoMode
                THEN 1 ELSE 0
           /\ \A i \in 1..Len(modes) :
                /\ modes[i].mode \in 0..511
                /\ (cur.mode - modes[i].mode) % 512 = 0

\* setAttributes was called for a file whose mode has file-type bits and
\* that has a modification time only: both are set, the access time to the
\* modification time.
C18_Witness ==
    /\ opKind = "setAttributes"
    /\ cur.type = FILE
    /\ cur.mode = 33261
    /\ cur.atime = NoTime
    /\ cur.mtime = 5
    /\ attrCalls = <<[call |-> "chmod", mode |-> 493, atime |-> NoTime,
                      mtime |-> NoTime],
                     [call |-> "utimes", mode |-> NoMode, atime |-> 5,
                      mtime |-> 5]>>

\* C19: a setAttributes call on a Symlink entry makes lchmod and lutimes
\* calls only, and none at all where the platform has no such calls.
C19_SymlinkAttributes ==
    opKind = "setAttributes" /\ cur.type = SYMLINK
    => /\ \A i \in 1..Len(attrCalls) :
            attrCalls[i].call \in {"lchmod", "lutimes"}
       /\ ~lsupported => attrCalls = <<>>

\* setAttributes was called, nothing ignored, for a symlink that has a mode
\* and a time, on a platform without lchmod and lutimes: no call was made.
C19_Witness ==
    /\ opKind = "setAttributes"
    /\ cur.type = SYMLINK
    /\ ~lsupported
    /\ cur.mode # NoMode
    /\ cur.mtime # NoTime
    /\ ~attrOptions.ignorePermissions
    /\ ~attrOptions.ignoreTimes
    /\ attrCalls = <<>>

\* C20: createArchiveByFileExtension gives the adapter of the longest
\* extension of the table (.zip <<".", "z", "i", "p">>; .tar <<".", "t", "a", "r">>; .tar.gz and .tgz <<".", "t", "a", "r">>+gzip;
\* .tar.bz2 and .tbz2 <<".", "t", "a", "r">>+bzip2; .dmg, .iso and .cdr the disk image) that
\* ends the lower-cased path, null when none does, and never the Directory
\* adapter; x.tar.gz and x.<<".", "t", "a", "r">>.<<".", "g", "z">> give <<".", "t", "a", "r">>+gzip, x.unknown and x give null.
C20_ByFileExtension ==
    created # "none"
    => LET table == {[ext |-> <<".", "z", "i", "p">>, Archive |-> "zip"],
                     [ext |-> <<".", "t", "a", "r">>, Archive |-> "tar"],
                     [ext |-> <<".", "t", "a", "r", ".", "g", "z">>, Archive |-> "targz"],
                     [ext |-> <<".", "t", "g", "z">>, Archive |-> "targz"],
                     [ext |-> <<".", "t", "a", "r", ".", "b", "z", "2">>, Archive |-> "tarbz2"],
                     [ext |-> <<".", "t", "b", "z", "2">>, Archive |-> "tarbz2"],
                     [ext |-> <<".", "d", "m", "g">>, Archive |-> "hdi"],
                     [ext |-> <<".", "i", "s", "o">>, Archive |-> "hdi"],
                     [ext |-> <<".", "c", "d", "r">>, Archive |-> "hdi"]}
           lower == [i \in 1..Len(createPath) |->
                        IF \E k \in 1..26 : UpperCase[k] = createPath[i]
                        THEN LowerCase[CHOOSE k \in 1..26 :
                                           UpperCase[k] = createPath[i]]
                        ELSE createPath[i]]
           suffixes == {e \in table :
                          /\ Len(e.ext) <= Len(lower)
                          /\ \A i \in 1..Len(e.ext) :
                                lower[Len(lower) - Len(e.ext) + i] = e.ext[i]}
       IN  /\ suffixes = {} => created = "null"
           /\ suffixes # {}
                => \E e \in suffixes :
                      /\ \A d \in suffixes : Len(d.ext) <= Len(e.ext)
                      /\ created = e.Archive
           /\ created # "dir"
           /\ createPath \in {<<"x", ".", "t", "a", "r", ".", "g", "z">>, <<"x", ".", "T", "A", "R", ".", "G", "Z">>} => created = "targz"
           /\ createPath \in {<<"x", ".", "u", "n", "k", "n", "o", "w", "n">>, <<"x">>} => created = "null"

\* x.<<".", "t", "a", "r">>.<<".", "g", "z">> was given and the <<".", "t", "a", "r">>+gzip adapter returned.
C20_Witness ==
    /\ createPath = <<"x", ".", "T", "A", "R", ".", "G", "Z">>
    /\ created = "targz"

\* C21: createArchiveByFileStat gives the Directory adapter for a
\* directory whatever its name, what extension matching gives for anything
\* else that stat finds, and null where stat fails;
\* createArchiveByFileStatOrThrow gives the same adapters and throws where
\* stat fails and where a non-directory has no extension of the table.
C21_ByFileStat ==
    LET byExt == createArchiveByFileExtension(createPath)
    IN  /\ createFn = "createArchiveByFileStat"
             => /\ createStat = "dir" => created = "dir"
                /\ createStat = "file" => created = byExt
                /\ createStat = "none" => created = "null"
        /\ createFn = "createArchiveByFileStatOrThrow"
             => /\ createStat = "dir" => created = "dir"
                /\ createStat = "file" /\ byExt # "null" => created = byExt
                /\ createStat = "file" /\ byExt = "null"
                     => created = "Unsupported"
                /\ createStat = "none" => created = "ENOENT"

\* createArchiveByFileStat was given a directory named x.zip and returned
\* the Directory adapter.
C21_Witness ==
    /\ createFn = "createArchiveByFileStat"
    /\ createStat = "dir"
    /\ createPath = <<"x", ".", "z", "i", "p">>
    /\ created = "dir"

\* C22: a stream call that succeeds on a delivered entry resolves to null
\* exactly when the entry is a Directory.
C22_StreamNoneIffDirectory ==
    pc = "callback" /\ opKind = "stream" /\ opResult = "none"
    => (opStream = "null" <=> cur.type = DIRECTORY)

\* C23: every Symlink entry the TAR adapters deliver has the size of its
\* link name in UTF-8 bytes, not the size its header declares, and has its
\* readSymlink thunk; a read that met a symlink header without link name
\* has failed without a callback for it.
C23_TarSymlinkSize ==
    adapter \in TarAdapters /\ cur.type = SYMLINK
    => /\ "symlink" \in cur.thunks
       /\ \E header \in TarHeaders :
             /\ header.type = "symlink"
             /\ header.linkname # NoLinkname
             /\ cur.size = BufferLength(header.linkname)
             /\ header.linkname = <<"t", "U+00E9">> => cur.size = 3

\* A TAR read delivered a symlink: its size is the three bytes of its
\* two-character link name, and the header declared seven.
C23_Witness ==
    /\ adapter \in TarAdapters
    /\ pc = "callback"
    /\ cur.type = SYMLINK
    /\ cur.size = 3
    /\ "symlink" \in cur.thunks

\* The raw paths of ZIP records that are __MACOSX or lie below it.
MacResourceNames ==
    {fileName \in ZipNames :
        /\ Len(fileName) >= 8
        /\ SubSeq(fileName, 1, 8) = <<"_", "_", "M", "A", "C", "O", "S", "X">>
        /\ Len(fileName) > 8 => fileName[9] \in {"/", "\\"}}

\* C24: no entry the ZIP adapter has delivered has a raw path that is
\* __MACOSX or begins with __MACOSX/ or __MACOSX\; the step that reads such
\* a record invokes no callback and leaves the file open and the read
\* going, at the next record.
C24_NoMacResource ==
    /\ [](adapter = "zip" /\ cur.type # "none"
            => record.name \notin MacResourceNames)
    /\ [][adapter = "zip" /\ record' # record
            /\ record'.name \in MacResourceNames
          => /\ calls' = calls
             /\ cur' = cur
             /\ pc' = "loop"
             /\ idx' = idx + 1
             /\ input' = "open"
             /\ failure' = "none"]_vars

\* A ZIP read has passed over __MACOSX/a as its second record, after a
\* first one was delivered, and goes on.
C24_Witness ==
    /\ adapter = "zip"
    /\ record.name = <<"_", "_", "M", "A", "C", "O", "S", "X", "/", "a">>
    /\ pc = "loop"
    /\ idx = 3
    /\ calls = 1
    /\ input = "open"
    /\ failure = "none"

\* C25: a disk image is ejected at most once; when _read is over, eject has
\* been called once if attach succeeded, however the walk ended, and not at
\* all if attach failed; eject is called on a mounted image only, and every
\* entry is delivered while the image is mounted, before the eject.
C25_EjectOnce ==
    /\ [](adapter = "hdi" => ejects <= 1)
    /\ [](adapter = "hdi" /\ pc \in {"flush", "finally", "settled"}
            => /\ ~mounted
               /\ ejects = IF failure = "attach" THEN 0 ELSE 1)
    /\ [][adapter = "hdi" /\ ejects' # ejects
            => mounted /\ ~mounted' /\ ejects' = 1]_vars
    /\ [][adapter = "hdi" /\ pc # "callback" /\ pc' = "callback"
            => mounted /\ mounted' /\ ejects' = 0]_vars

\* A disk-image read whose callback threw has settled, the image ejected
\* once.
C25_Witness ==
    /\ adapter = "hdi"
    /\ pc = "settled"
    /\ failure = "callback"
    /\ calls >= 1
    /\ ejects = 1
    /\ ~mounted

\* C26: for every entry the disk-image adapter delivers, volumeName is the
\* non-empty part of the path before its first '/', volumePath the part
\* after it, and the path is the two joined by '/'; for every entry of
\* another adapter volumeName is null and volumePath is the path.
C26_VolumeNameAndPath ==
    pc = "callback"
    => LET path == EntryPath(adapter, cur)
           name == volumeName(adapter, path)
           rest == volumePath(adapter, path)
       IN  IF adapter = "hdi"
           THEN /\ name # <<>>
                /\ \A i \in 1..Len(name) : name[i] # "/"
                /\ Len(path) > Len(name)
                /\ path[Len(name) + 1] = "/"
                /\ path = name \o <<"/">> \o rest
           ELSE name = NullString /\ rest = path

\* The disk-image adapter has delivered the entry w/a of its second
\* volume.
C26_Witness ==
    /\ adapter = "hdi"
    /\ pc = "callback"
    /\ EntryPath(adapter, cur) = <<"w", "/", "a">>
    /\ volumeName(adapter, EntryPath(adapter, cur)) = <<"w">>
    /\ volumePath(adapter, EntryPath(adapter, cur)) = <<"a">>

\* The string has a backslash; it ends with a slash; it is made of slashes
\* only.
HasBackslash(str) == \E i \in 1..Len(str) : str[i] = "\\"

EndsWithSlash(str) == str # <<>> /\ str[Len(str)] = "/"

OnlySlashes(str) == \A i \in 1..Len(str) : str[i] = "/"

\* C27 as stated: what pathNormalize returns has no backslash and no
\* trailing slash unless it is the root '/'; '/' and the paths without
\* backslash and trailing slash come back unchanged; a second call changes
\* nothing.
C27_NoTrailingSlash ==
    /\ Len(fnResult) >= 1
         => /\ ~HasBackslash(fnResult[1])
            /\ EndsWithSlash(fnResult[1]) => fnResult[1] = <<"/">>
            /\ fnArg = <<"/">> => fnResult[1] = fnArg
            /\ ~HasBackslash(fnArg) /\ ~EndsWithSlash(fnArg)
                 => fnResult[1] = fnArg
    /\ Len(fnResult) = 2 => fnResult[2] = fnResult[1]

\* C27, amended: what pathNormalize returns has no backslash, is its
\* argument with each backslash made a slash and a trailing run of slashes
\* dropped, and ends with a slash only when it is made of slashes alone,
\* which is when the argument is made of slashes and backslashes alone and
\* nothing is dropped; '/' and the paths without backslash and trailing
\* slash come back unchanged; a second call changes nothing.
C27_NoTrailingSlashButSlashesOnly ==
    /\ Len(fnResult) >= 1
         => /\ ~HasBackslash(fnResult[1])
            /\ Len(fnResult[1]) <= Len(fnArg)
            /\ \A i \in 1..Len(fnResult[1]) :
                  fnResult[1][i] = IF fnArg[i] = "\\" THEN "/" ELSE fnArg[i]
            /\ \A i \in (Len(fnResult[1]) + 1)..Len(fnArg) :
                  fnArg[i] \in {"/", "\\"}
            /\ EndsWithSlash(fnResult[1])
                 <=> fnResult[1] # <<>> /\ OnlySlashes(fnResult[1])
            /\ OnlySlashes(fnResult[1]) => Len(fnResult[1]) = Len(fnArg)
            /\ fnArg = <<"/">> => fnResult[1] = fnArg
            /\ ~HasBackslash(fnArg) /\ ~EndsWithSlash(fnArg)
                 => fnResult[1] = fnArg
    /\ Len(fnResult) = 2 => fnResult[2] = fnResult[1]

\* pathNormalize was given two backslashes and returned two slashes, twice.
C27_Witness ==
    /\ fnArg = <<"\\", "\\">>
    /\ fnResult = << <<"/", "/">>, <<"/", "/">> >>

\* The parser hands over a record whose type flag each() does not support.
TarSkipStep ==
    /\ adapter \in TarAdapters
    /\ record' # record
    /\ record'.type \notin {"none", "file", "symlink", "directory"}

\* A TAR record is handed to the callback.
TarDeliverStep ==
    /\ adapter \in TarAdapters
    /\ pc # "callback"
    /\ pc' = "callback"

\* What a step that passes a record over does.
TarSkipEffect ==
    /\ pc' # "callback"
    /\ UNCHANGED <<cur, ret, monitorVars, opVars, afters, fs, flushed, stack,
                   ctx, reading>>
    /\ (failure' = "none")
         => (/\ body' = "drained"
             /\ pc' = "loop"
             /\ idx' = (IF pc = "begin" THEN 1 ELSE idx) + 1
             /\ input' = "open")

\* What a step that delivers a record does.
TarDeliverEffect ==
    /\ record'.type \in {"file", "symlink", "directory"}
    /\ cur'.path = record'.name
    /\ record'.name = TarName(idx')
    /\ (pc = "loop") => (idx' >= idx /\ body = "drained")

\* C28: when the TAR adapter meets a record whose type flag is not file,
\* symlink or directory, the callback is not invoked and nothing of the
\* read's state but the position changes; unless reading fails, the
\* record's body is read to its end and the loop stands at the next record
\* with the input open.  Every record that is delivered is delivered under
\* its own name, is of a supported type, and comes later in the archive
\* than the one delivered before.
C28_TarSkipsOtherTypes ==
    /\ [][TarSkipStep => TarSkipEffect]_vars
    /\ [][TarDeliverStep => TarDeliverEffect]_vars

\* The second record of a TAR archive is the first one the callback sees:
\* the first record was passed over.
C28_Witness ==
    /\ adapter \in TarAdapters
    /\ pc = "callback"
    /\ calls = 1
    /\ cur.path = TarName(2)
    /\ record.type = "file"

\* C29 as stated: when the TAR adapter has torn its input down after a
\* false from the callback, the body of the record at hand has been read
\* to its end.
C29_CancelDrainsBody ==
    (adapter \in TarAdapters /\ input = "destroyed") => body = "drained"

\* The TAR loop takes up the answer of the callback.
TarAnswerStep ==
    /\ adapter \in TarAdapters
    /\ pc = "returned"
    /\ pc' # "returned"

\* On false the loop is left at once: the adapter reads no more of the
\* body, destroys the input and _read returns without an error.  On any
\* other answer the body is read to its end before the next record is
\* taken, unless that reading fails.
TarAnswerEffect ==
    IF ret = "false"
    THEN /\ body' = "abandoned"
         /\ input' = "destroyed"
         /\ pc' = "flush"
         /\ UNCHANGED <<idx, failure, record>>
    ELSE /\ input' = input
         /\ (failure' = "none") => (body' = "drained" /\ pc' = "loop")

\* The TAR input has been destroyed.
TarDestroyed == adapter \in TarAdapters /\ input = "destroyed"

\* C29, amended: when the callback returns false for a TAR record, the
\* adapter does not read the remainder of that record's body: the loop is
\* left at once, the input is destroyed and the read goes on to its end
\* without an error of the adapter and without another record; the body is read to its
\* end only after an answer other than false.
C29_CancelLeavesBody ==
    /\ [][TarAnswerStep => TarAnswerEffect]_vars
    /\ [](adapter \in TarAdapters /\ input = "destroyed"
            => /\ body = "abandoned"
               /\ stopped
               /\ failure # "discovery"
               /\ pc \in {"flush", "finally", "settled"})
    /\ [][TarDestroyed => UNCHANGED <<input, body, record, calls>>]_vars

\* A TAR read was stopped by false: the input is destroyed and the body of
\* the file record at hand was left unread.
C29_Witness ==
    /\ adapter \in TarAdapters
    /\ input = "destroyed"
    /\ body = "abandoned"
    /\ record.type = "file"
    /\ stopped

\* The file-type nibble (bits 12 to 15) of a 16-bit mode.
TypeNibble(mode) == (mode \div 4096) % 16

\* The type a non-zero file-type nibble stands for in the adapter: a
\* symbolic link when bits 15 and 13 are set, else a directory when bit 14
\* is set, else a file when bit 15 is set, else none.
NibbleType(n) ==
    IF n \in {10, 11, 14, 15} THEN SYMLINK
    ELSE IF n \in {4, 5, 6, 7, 12, 13} THEN DIRECTORY
    ELSE IF n \in {8, 9} THEN FILE
    ELSE "null"

\* The ZIP adapter takes an entry from the central directory.
ZipEntryStep ==
    /\ adapter = "zip"
    /\ pc = "loop"
    /\ record'.type = "entry"

\* The type the entry is given, and whether it is delivered.
ZipEntryEffect ==
    LET mode == record'.attrs.hi
        name == record'.name
        n == TypeNibble(mode)
        separator == name # <<>> /\ name[Len(name)] \in {"/", "\\"}
        type == IF n # 0 THEN NibbleType(n)
                ELSE IF separator THEN DIRECTORY ELSE FILE
    IN  /\ (type = "null")
          => (pc' = "loop" /\ idx' = idx + 1 /\ UNCHANGED <<cur, calls>>)
        /\ (type # "null" /\ ~pathIsMacResource(name))
          => (/\ pc' = "callback"
              /\ calls' = Min(calls + 1, CallsCap)
              /\ cur'.type = type
              /\ cur'.mode = (IF n # 0 THEN mode ELSE NoMode))
        /\ (pc' = "callback" /\ cur'.type = SYMLINK) => n # 0

S_IFMT(mode) == ((mode \div 4096) % 16) * 4096

\* C31: what modeToPathType returns is Symlink, Directory or File exactly
\* when the file-type field of the mode is 0o120000, 0o040000 or 0o100000,
\* and null for every other value of the field.
C31_ModeToPathType ==
    fnResult # <<>>
      => fnResult[1] = (IF S_IFMT(fnArg) = S_IFLNK THEN SYMLINK
                        ELSE IF S_IFMT(fnArg) = S_IFDIR THEN DIRECTORY
                        ELSE IF S_IFMT(fnArg) = S_IFREG THEN FILE
                        ELSE "null")

\* The directory or disk-image adapter hands a ResourceFork entry to the
\* callback.
RsrcDeliverStep ==
    /\ adapter \in {"dir", "hdi"}
    /\ pc # "callback"
    /\ pc' = "callback"
    /\ cur'.type = RESOURCE_FORK

\* It does so from each() of a File entry whose callback has just returned
\* something other than false and null, under the same raw path and with
\* the walk where it was.
RsrcDeliverEffect ==
    /\ pc = "returned"
    /\ cur.type = FILE
    /\ ret = "ok"
    /\ ctx.stat = "file"
    /\ cur'.path = cur.path
    /\ cur' = Trigger(RsrcEntry(cur.path))
    /\ UNCHANGED <<stack, idx>>

\* each() of the directory or disk-image adapter takes up the answer of
\* the callback for a File entry.
FileAnswerStep ==
    /\ adapter \in {"dir", "hdi"}
    /\ pc = "returned"
    /\ cur.type = FILE
    /\ pc' # "returned"

\* After false or null no entry follows from this each(); after another
\* answer either the resource fork found is delivered at once or, none
\* being there or the look for it failing, each() is left.
FileAnswerEffect ==
    IF ret = "ok"
    THEN \/ pc' = "callback" /\ cur'.type = RESOURCE_FORK
         \/ pc' # "callback" /\ cur' = NoEntry
    ELSE pc' # "callback" /\ cur' = NoEntry

\* C32: in the Directory and Disk-Image adapters a ResourceFork entry is
\* delivered only right after the File entry of the same raw path, whose
\* callback returned neither false nor null, before the walk visits
\* another path; and after such a File entry the resource fork, when
\* found, is the very next entry delivered.
C32_ResourceForkFollowsFile ==
    /\ [][RsrcDeliverStep => RsrcDeliverEffect]_vars
    /\ [][FileAnswerStep => FileAnswerEffect]_vars

\* A ResourceFork entry of a file below the root is with the callback, in
\* the Directory adapter, second of the read's entries.
C32_Witness ==
    /\ adapter = "dir"
    /\ pc = "callback"
    /\ cur.type = RESOURCE_FORK
    /\ ctx.phase = "rsrc"
    /\ calls = 2

\* The place of a name in the order of names.
NameIndex(n) == CHOOSE i \in 1..Len(Alphabet) : Alphabet[i] = n

\* p comes before q in depth-first pre-order with siblings in ascending
\* name order: p is a proper prefix of q, or at the first segment where
\* they differ p has the lesser name.
RECURSIVE PathBefore(_, _)
PathBefore(p, q) ==
    /\ q # <<>>
    /\ \/ p = <<>>
       \/ IF Head(p) = Head(q) THEN PathBefore(Tail(p), Tail(q))
          ELSE NameIndex(Head(p)) < NameIndex(Head(q))

\* The directory holding the path.
ParentPath(p) == SubSeq(p, 1, Len(p) - 1)

\* fsWalk of the Directory adapter hands a path to the callback.
DirWalkDeliverStep ==
    /\ adapter = "dir"
    /\ pc = "walk"
    /\ pc' = "callback"

\* The path is the top of the stack, under the walk's base, and comes
\* after the entry delivered last, which is of the same walk or its base.
DirWalkDeliverEffect ==
    /\ stack # <<>>
    /\ cur'.path = ctx.prefix \o stack[Len(stack)]
    /\ stack' = SubSeq(stack, 1, Len(stack) - 1)
    /\ IsPrefix(ctx.prefix, lastPath)
    /\ PathBefore(lastPath, cur'.path)
    /\ subpaths.set => ctx.prefix = subpaths.list[idx]

\* Paths are put on the stack of the Directory adapter's walk.
DirPushStep ==
    /\ adapter = "dir"
    /\ Len(stack') > Len(stack)

\* They are the children of one directory, the base of a starting walk or
\* the Directory entry whose callback has just returned, last name lowest
\* so that the first name is taken first, above what the stack held.
DirPushEffect ==
    LET base == IF pc = "returned" THEN cur.path ELSE <<>>
        new == SubSeq(stack', Len(stack) + 1, Len(stack'))
    IN  /\ SubSeq(stack', 1, Len(stack)) = stack
        /\ pc = "returned"
             => /\ cur.type = DIRECTORY
                /\ lastPath = cur.path
                /\ ctx.where = "walk" => ret = "ok"
                /\ ctx.where = "top" => stack = <<>>
        /\ \A i \in 1..Len(new) :
              /\ new[i] # <<>>
              /\ ctx'.prefix \o ParentPath(new[i]) = base
              /\ i > 1 => PathBefore(new[i], new[i - 1])
        /\ \A i \in 1..Len(stack) :
              PathBefore(ctx'.prefix \o new[1], ctx'.prefix \o stack[i])

\* The subpaths loop of the Directory adapter hands a subpath to the
\* callback.
DirSubDeliverStep ==
    /\ adapter = "dir"
    /\ pc = "subloop"
    /\ pc' = "callback"

\* It is the subpath at the loop's place in the caller's list, and the walk
\* of the subpath before is over.
DirSubDeliverEffect ==
    /\ subpaths.set
    /\ cur'.path = subpaths.list[idx]
    /\ stack = <<>>
    /\ UNCHANGED <<idx, stack>>

\* The place in the caller's list stays or moves on by one.
DirSubOrder ==
    (adapter = "dir" /\ subpaths.set /\ reading) => idx' \in {idx, idx + 1}

\* C33: the Directory adapter delivers in depth-first pre-order with
\* siblings in ascending name order: an entry of a walk is the top of the
\* stack and comes after the entry delivered before it; children get on
\* the stack when their directory has just been delivered, first name on
\* top, and before everything the stack held; with subpaths set, each
\* subpath is delivered at its place in the caller's list, before its
\* descendants and after the walk of the subpath before.
C33_DepthFirstPreOrder ==
    /\ [][DirWalkDeliverStep => DirWalkDeliverEffect]_vars
    /\ [][DirPushStep => DirPushEffect]_vars
    /\ [][DirSubDeliverStep => DirSubDeliverEffect]_vars
    /\ [][DirSubOrder]_vars

\* The walk of the whole tree delivers a/b, second child of a, while b,
\* the next sibling of a, waits on the stack: the descendants of a come
\* before its next sibling.
C33_Witness ==
    /\ adapter = "dir"
    /\ ~subpaths.set
    /\ pc = "callback"
    /\ cur.path = <<"a", "b">>
    /\ stack = << <<"b">> >>
    /\ calls = CallsCap

\* fsReaddir is called in a walk of the Directory adapter.
ReaddirStep ==
    /\ adapter = "dir"
    /\ record.type # "readdir"
    /\ record'.type = "readdir"

\* The directory listed is one the walk has met, not the walk's base.
ReaddirOfMet == pc = "returned" /\ ctx.where = "walk"

\* The listing fails and the walk stops: the error leaves read() as it is.
ReaddirThrows ==
    /\ failure' = ReaddirCause(record'.code)
    /\ pc' = "finally"
    /\ UNCHANGED <<stack, calls>>

\* The listing fails and the walk goes on as after an empty listing.
ReaddirForgiven ==
    /\ failure' = "none"
    /\ pc' = "walk"
    /\ stack' = stack

\* C34 as stated: with ignoreUnreadableDirectories set, a directory whose
\* listing fails with EACCES has been delivered and is taken to have no
\* children, the walk going on; without the option, or with another error,
\* the walk stops and the error propagates.
UnreadableAsStated ==
    ReaddirStep /\ record'.code # "ok"
      => IF walkOpts /\ record'.code = "EACCES"
         THEN lastPath = record'.name /\ ReaddirForgiven
         ELSE ReaddirThrows

\* C34 as stated, on every step.
C34_UnreadableDirectories == [][UnreadableAsStated]_vars

\* What a failing listing does: forgiven only for a directory the walk has
\* met, with the option set and the error EACCES.
UnreadableAmended ==
    ReaddirStep /\ record'.code # "ok"
      => IF ReaddirOfMet /\ walkOpts /\ record'.code = "EACCES"
         THEN ReaddirForgiven
         ELSE ReaddirThrows

\* A directory the walk lists after meeting it has just been delivered.
MetDelivered ==
    ReaddirStep /\ ReaddirOfMet
      => /\ cur.type = DIRECTORY
         /\ cur.path = record'.name
         /\ lastPath = record'.name
         /\ ret = "ok"

\* C34, amended: a directory met in the walk is delivered before it is
\* listed; when its listing fails with EACCES and
\* ignoreUnreadableDirectories is set, it is taken to have no children and
\* the walk goes on with what is on the stack; when the option is not set,
\* or the error is another one, or the directory is the base of the walk,
\* the walk stops and read() fails with that error.
C34_UnreadableMetDirectories ==
    /\ [][UnreadableAmended]_vars
    /\ [][MetDelivered]_vars
    /\ [](pc = "settled" /\ record.type = "readdir" /\ record.code # "ok"
            => failure = ReaddirCause(record.code))

\* The walk, told to ignore unreadable directories, has met the directory
\* a, delivered it, failed to list it with EACCES and gone on to its
\* sibling b.
C34_Witness ==
    /\ adapter = "dir"
    /\ walkOpts
    /\ ~subpaths.set
    /\ pc = "walk"
    /\ record = Readdir(<<"a">>, "EACCES")
    /\ stack = << <<"b">> >>
    /\ failure = "none"

\* C35: the deferred-attributes map is there exactly while the reading flag
\* is set; afterReadSetAttributes and afterReadSetAttributesRemove called
\* with no read in progress throw and change nothing, and called during a
\* read, the flush and the moments around it included, succeed and set or
\* delete the key of the resolved path.
AftersCallStep ==
    /\ opKind' \in {"afterReadSetAttributes", "afterReadSetAttributesRemove"}
    /\ pc' = pc /\ cur' = cur /\ reading' = reading /\ readErr' = readErr

AftersCallEffect ==
    IF reading
    THEN /\ opResult' = "none"
         /\ afters'.live
         /\ Len(afters'.recs) \in
              IF opKind' = "afterReadSetAttributes"
              THEN {Len(afters.recs), Len(afters.recs) + 1}
              ELSE {Len(afters.recs), Len(afters.recs) - 1}
         /\ opKind' = "afterReadSetAttributes" => afters'.recs # <<>>
    ELSE /\ opResult' = IF opKind' = "afterReadSetAttributes"
                        THEN "OnlyAddedWhileReading"
                        ELSE "OnlyRemovedWhileReading"
         /\ afters' = afters

AftersCallAsStated == AftersCallStep => AftersCallEffect

C35_MapExistsWhileReading ==
    /\ [](afters.live <=> reading)
    /\ [](pc \in {"idle", "settled"} <=> ~reading)
    /\ [][AftersCallAsStated]_vars

\* A record added once the flush has run on an empty map, before the read
\* ends.
C35_Witness ==
    /\ pc = "finally"
    /\ failure = "none"
    /\ flushed = <<>>
    /\ afters.recs # <<>>
    /\ opKind = "afterReadSetAttributes"
    /\ opResult = "none"

\* C36: within one read of any adapter callbacks never overlap: the entry at
\* hand is active exactly while its callback runs, and while it runs the
\* only step is the callback settling, which ends the entry's active span
\* and neither discovers nor delivers anything; an entry is delivered only
\* when none is active.
CallbackSettleOnly ==
    /\ pc' # "callback"
    /\ ~cur'.triggering
    /\ cur'.path = cur.path /\ cur'.type = cur.type
    /\ UNCHANGED <<idx, stack, ctx, record, body, calls, lastPath, devices,
                   mounted>>

CallbackRunningStep == pc = "callback" => CallbackSettleOnly

DeliveryStep == pc # "callback" /\ pc' = "callback"

DeliveryEffect == ~cur.triggering /\ cur'.triggering /\ ~cur'.extracted

DeliveryWhenIdle == DeliveryStep => DeliveryEffect

C36_CallbacksNeverOverlap ==
    /\ [](cur.triggering <=> pc = "callback")
    /\ [][CallbackRunningStep]_vars
    /\ [][DeliveryWhenIdle]_vars

\* A second entry of a zip archive is with its callback, the first one's
\* having settled.
C36_Witness ==
    /\ adapter = "zip"
    /\ calls = 2
    /\ pc = "callback"
    /\ cur.triggering
    /\ idx = 2

\* C37: a read() refused with the reentrancy error changes nothing but the
\* caller's error: flag, map with its records, position, entry, destination
\* and everything else stay as they are; and the read that was under way
\* still flushes every record of its map when it ends.
ReadRefusedStep == reading /\ readErr' # readErr

ReadRefusedFrame ==
    /\ readErr' = "AlreadyBeingRead"
    /\ reading'
    /\ UNCHANGED <<configVars, reading, afters, pc, idx, stack, ctx, cur, ret,
                   failure, fs, flushed, monitorVars, opVars, hdiVars,
                   streamVars>>

ReadRefusedChangesNothing == ReadRefusedStep => ReadRefusedFrame

FlushedKeys == {flushed[i].resolved : i \in 1..Len(flushed)}

C37_RefusedReadChangesNothing ==
    /\ [][ReadRefusedChangesNothing]_vars
    /\ [](readErr = "AlreadyBeingRead" /\ pc = "finally" /\ failure = "none"
            => reading /\ afters.live /\ FlushedKeys = AftersKeys(afters))

\* A read that refused another read() has flushed its two records.
C37_Witness ==
    /\ readErr = "AlreadyBeingRead"
    /\ pc = "finally"
    /\ failure = "none"
    /\ Len(flushed) = 2
    /\ reading

\* C38 as stated: once discovery or a callback has thrown, the error read()
\* rejects with is that one; no entry is delivered any more; the flush is
\* skipped, so no record is applied, and the map is gone when read() has
\* settled.
Thrown == failure \notin {"none", "flush"}

NothingAfterThrow ==
    Thrown => /\ calls' = calls
              /\ lastPath' = lastPath
              /\ pc' \in {"eject", "finally", "settled"}
              /\ flushed' = flushed
              /\ fs' = fs

ThrownState ==
    Thrown => /\ pc \in {"eject", "finally", "settled"}
              /\ ~cur.triggering
              /\ flushed = <<>>

DiscardedState == pc = "settled" => afters = NoAfters /\ ~reading

SameErrorStep == failure # "none" => failure' = failure

C38_ThrowRejectsWithSameError ==
    /\ [][SameErrorStep]_vars
    /\ [][NothingAfterThrow]_vars
    /\ [](ThrownState /\ DiscardedState)

\* C38: the same, except that the error of a disk image's eject, when the
\* eject in the finally block of its _read fails too, takes the place of
\* the error thrown before.
SameErrorOrEjectStep ==
    failure # "none"
        => \/ failure' = failure
           \/ adapter = "hdi" /\ pc = "eject" /\ failure' = "eject"

C38_ThrowRejectsUnlessEjectFails ==
    /\ [][SameErrorOrEjectStep]_vars
    /\ [][NothingAfterThrow]_vars
    /\ [](ThrownState /\ DiscardedState)

\* A callback of a disk image's read threw with a record registered: the
\* image is ejected and the flush was passed over.
C38_Witness ==
    /\ adapter = "hdi"
    /\ pc = "finally"
    /\ failure = "callback"
    /\ ejects = 1
    /\ afters.recs # <<>>
    /\ flushed = <<>>

\* C39 as stated: an extract that fails with the path-exists error at a
\* destination whose directory has a record pending leaves the map as it
\* was.
PathExistsOnRecordStep ==
    /\ pc = "callback"
    /\ nOps' = nOps + 1
    /\ opKind' = "reextract"
    /\ opResult' = "PathExists"

C39_FailedExtractKeepsRecord ==
    [][PathExistsOnRecordStep => afters' = afters]_vars

\* C39: such an extract has removed the record pending at its destination
\* before it failed, and changed nothing else: the directory stays, the
\* other records stay, and the flush applies only what is in the map when
\* it runs, so not the removed record unless it is registered anew.
PathExistsOnRecordEffect ==
    /\ \E path \in DestPaths :
         /\ pathResolve(path) \in AftersKeys(afters)
         /\ fsLstatExists(fs, pathResolve(path)) = "dir"
         /\ afters' = afterReadSetAttributesRemove(afters, path)
         /\ pathResolve(path) \notin AftersKeys(afters')
    /\ Len(afters'.recs) = Len(afters.recs) - 1
    /\ fs' = fs
    /\ cur'.extracted

PathExistsRemovesRecord == PathExistsOnRecordStep => PathExistsOnRecordEffect

C39_FailedExtractRemovesRecord ==
    /\ [][PathExistsRemovesRecord]_vars
    /\ [](pc = "finally" /\ failure = "none"
            => FlushedKeys = AftersKeys(afters))

\* The read's flush is over and has applied nothing: the last callback's
\* extract failed on the directory extracted before, whose record is gone.
C39_Witness ==
    /\ pc = "finally"
    /\ failure = "none"
    /\ opKind = "reextract"
    /\ opResult = "PathExists"
    /\ fsLstatExists(fs, <<"x">>) = "dir"
    /\ flushed = <<>>

\* C40: an entry counts as consumed from the start of a consumption
\* operation: an extract that fails with the path-exists or the
\* no-resource-fork-target error was let in on an active, unconsumed entry
\* and leaves it marked; the next extract, stream, read or readBuffer on it
\* inside the same callback is refused with 'can only be extracted once'
\* and touches neither the entry, the destination nor the map.
ExtractConflicts == {"PathExists", "NoResourceFork"}

ConflictStep ==
    /\ nOps' = nOps + 1
    /\ opKind' \in {"extract", "reextract"}
    /\ opResult' \in ExtractConflicts

ConflictEffect ==
    /\ cur.triggering /\ ~cur.extracted
    /\ cur'.extracted /\ cur'.triggering
    /\ cur'.thunkCalls = cur.thunkCalls
    /\ fs' = fs

ConflictMarksEntry == ConflictStep => ConflictEffect

AfterConflictStep ==
    /\ opKind \in {"extract", "reextract"}
    /\ opResult \in ExtractConflicts
    /\ cur.triggering
    /\ nOps' = nOps + 1

AfterConflictEffect ==
    /\ opResult' = "ExtractedOnce"
    /\ opStream' = "none"
    /\ UNCHANGED <<cur, fs, afters>>

AfterConflictRefused == AfterConflictStep => AfterConflictEffect

C40_ConsumedWhenStarted ==
    /\ [][ConflictMarksEntry]_vars
    /\ [][AfterConflictRefused]_vars
    /\ [](opKind \in {"extract", "reextract"} /\ opResult \in ExtractConflicts
            => cur.extracted)

\* A resource fork with its reader, in a read, nothing at any destination:
\* its first operation can only have been an extract that found no file,
\* no reader having been called, and the second one was refused.
C40_Witness ==
    /\ cur.type = RESOURCE_FORK
    /\ cur.thunks = {"rsrc"}
    /\ cur.thunkCalls = 0
    /\ cur.triggering
    /\ reading
    /\ \A p \in FsPaths : fs[p] = "none"
    /\ nOps = 2
    /\ opResult = "ExtractedOnce"

====
